---- MODULE Spec2Model ----
(***************************************************************************)
(* Model of the agent workflow of src/src/workflow.js (the second, agent   *)
(* version of ChatWorkflow, lines 299-1604) and of the tool registry and   *)
(* dispatcher of src/src/functions.js.                                     *)
(*                                                                         *)
(* Texts are modelled by the features the code's regular expressions and   *)
(* includes() tests read from them; argument objects by whether the        *)
(* parameters the executor dereferences are present ("full") or not        *)
(* ("empty").                                                              *)
(***************************************************************************)
EXTENDS Naturals, Integers, Sequences, FiniteSets, TLC

VARIABLES
    input,                  \* execute(input, env): message and conversationHistory
    pc,                     \* where execute is: "handler", "sleep", "awaitingModel", "done", "failed"
    currentStep,            \* this.currentStep (1-based index into steps)
    attempts,               \* attempts of the current step (execute's local)
    isComplete,             \* this.isComplete
    delays,                 \* the sleep(ms) calls made by execute, in order
    handlerCalls,           \* how often each step's handler was invoked
    validation,             \* this.state.validation
    context,                \* this.state.context
    aiResponse,             \* this.state.aiResponse
    agentMetadata,          \* this.state.agentMetadata
    processedResponse,      \* this.state.processedResponse
    result,                 \* this.state.result
    error,                  \* this.state.error
    iteration,              \* callAIAgent: iteration
    currentMessages,        \* callAIAgent: currentMessages
    toolsUsed,              \* callAIAgent: toolsUsed
    functionCallsExecuted,  \* callAIAgent: functionCallsExecuted
    inv,                    \* history of the current callAIAgent invocation
    aiCalls,                \* env.AI.run calls made in this execute run
    detResponse,            \* detector harness: the response handed to the detector
    detResult,              \* detector harness: what the detector returned
    detAgain,               \* detector harness: what a second call on the same response returned
    san,                    \* sanitizer harness: the answer text handed over and the text produced
    req,                    \* handleChatRequest: the deadline, the HTTP response, the session writes
    parked,                 \* a second request's workflow instance while it is suspended
    sessions,               \* ChatSession: this.sessions (session id -> messages)
    rag                     \* queryByDocumentId: attempt, the waits made, the value returned

vars == << input, pc, currentStep, attempts, isComplete, delays, handlerCalls,
           validation, context, aiResponse, agentMetadata, processedResponse,
           result, error, iteration, currentMessages, toolsUsed,
           functionCallsExecuted, inv, aiCalls, detResponse, detResult,
                    detAgain, san, req, parked, sessions, rag >>

Nil == [nil |-> TRUE]

----------------------------------------------------------------------------
(* Tool registry: src/src/functions.js *)

\* AVAILABLE_FUNCTIONS, in registry order, with the number of required parameters.
AVAILABLE_FUNCTIONS ==
    << [name |-> "get_weather",      required |-> 1],
       [name |-> "calculate",        required |-> 1],
       [name |-> "get_current_time", required |-> 0],
       [name |-> "search_web",       required |-> 1],
       [name |-> "convert_currency", required |-> 3] >>

IsRegistered(funcName) ==
    \E i \in 1..Len(AVAILABLE_FUNCTIONS) : AVAILABLE_FUNCTIONS[i].name = funcName

\* A name the model may put in a structured call that is not in the registry.
UnknownTool == "lookup_stock"

\* The ways one executeFunction(name, args) call can end:
\*   "ok"         the executor returned a result object without an error field
\*   "errPayload" the executor caught its own error and returned {error, message}
\*   "throw"      the call raised (unknown name, or a dereference of a missing argument)
executeFunction(funcName, args) ==
    CASE funcName = "get_weather" ->
            IF args = "empty" THEN {"throw"} ELSE {"ok"}
      [] funcName = "calculate" ->
            IF args = "empty" THEN {"errPayload"} ELSE {"ok", "errPayload"}
      [] funcName = "get_current_time" ->
            IF args = "empty" THEN {"ok"} ELSE {"ok", "errPayload"}
      [] funcName = "search_web" ->
            IF args = "empty" THEN {"errPayload"} ELSE {"ok", "errPayload"}
      [] funcName = "convert_currency" ->
            IF args = "empty" THEN {"throw"} ELSE {"ok", "errPayload"}
      [] OTHER -> {"throw"}

----------------------------------------------------------------------------
(* User messages, by what the keyword tests of the workflow read from them *)

\* "weather": a weather keyword (also a current-information keyword)
\* "year":    2025 / 2026 / this year / current year (also current-information keywords)
\* "current": another current-information keyword
\* "plain":   none of them
MsgKinds == {"weather", "year", "current", "plain"}

requiresCurrentInformation(kind) == kind \in {"weather", "year", "current"}

hasWeatherKeywords(kind) == kind = "weather"

hasYearKeywords(kind) == kind = "year"

----------------------------------------------------------------------------
(* Model responses *)

ToolCall(n, a) == [name |-> n, arguments |-> a]

\* One entry of a structured tool_calls list or the function_call field.
\* form: "object" (arguments is an object), "string" (a JSON string),
\*       "badstring" (a string that is not JSON), "absent".
StructCall(n, f, a) == [name |-> n, form |-> f, arguments |-> a]

\* The text of a response.
\*   empty   the text is empty or blank
\*   json    embedded JSON objects the patterns of method 3 match, in order:
\*           [valid, name, arguments] (valid: JSON.parse accepts the match)
\*   marker  <<>> or one [TOOL: name(args)] marker (the first one in the text)
\*   nl      tool names for which a phrase pattern of method 6 matches
\*   extract tool names for which extractArgumentsFromText finds an argument
Text(e, j, m, n, x) == [empty |-> e, json |-> j, marker |-> m, nl |-> n, extract |-> x]

PlainText == Text(FALSE, <<>>, <<>>, {}, {})
EmptyText == Text(TRUE, <<>>, <<>>, {}, {})

\* A successful model response: the raw response's tool_calls field (present or
\* not, and its entries), its function_call field (<<>> or one entry), its text.
Response(tcPresent, tcs, fc, t) ==
    [hasToolCalls |-> tcPresent, tool_calls |-> tcs, function_call |-> fc, text |-> t]

JsonObj(v, n, a) == [valid |-> v, name |-> n, arguments |-> a]

----------------------------------------------------------------------------
(* Messages of the conversation sent to the model *)

\* role, the keyword class of the content (kind), the tool name of a tool
\* message, the tool_calls of the assistant turn of the loop, and, for a tool
\* message, the result object its content is built from and how it is rendered.
Msg(r, k, n, tc, res, fmt) ==
    [role |-> r, kind |-> k, name |-> n, tool_calls |-> tc, result |-> res, fmt |-> fmt]

NoResult == [success |-> "absent", error |-> FALSE, confidence |-> "absent"]

SystemMsg == Msg("system", "prompt", "", <<>>, NoResult, "text")
UserMsg(kind) == Msg("user", kind, "", <<>>, NoResult, "text")
AssistantMsg(kind) == Msg("assistant", kind, "", <<>>, NoResult, "text")

\* The user turn prepareContext builds when the input has a ragContext: the
\* retrieved text, the message and the instructions in one template.
AugmentedUserMsg(kind) == Msg("user", kind, "", <<>>, NoResult, "augmented")

----------------------------------------------------------------------------
(* Tool-call detector: workflow.js detectAgentFunctionCalls *)

Returned(calls) == [raised |-> FALSE, calls |-> calls]
Raised == [raised |-> TRUE, calls |-> <<>>]

RECURSIVE MapStructCalls(_)
\* rawResponse.tool_calls.map(...): JSON.parse of a string argument, the object
\* itself otherwise, {} when there is none.
MapStructCalls(tcs) ==
    IF tcs = <<>> THEN <<>>
    ELSE << ToolCall(Head(tcs).name,
                     IF Head(tcs).form \in {"object", "string"}
                     THEN Head(tcs).arguments ELSE "empty") >>
         \o MapStructCalls(Tail(tcs))

\* JSON.parse throws a SyntaxError on a string that is not JSON.
JsonParseThrows(tcs) == \E i \in 1..Len(tcs) : tcs[i].form = "badstring"

RECURSIVE Method3(_)
\* Embedded JSON objects: a match that parses and names a registered function
\* is pushed; a match that does not parse is skipped.
Method3(objs) ==
    IF objs = <<>> THEN <<>>
    ELSE (IF Head(objs).valid /\ IsRegistered(Head(objs).name)
          THEN << ToolCall(Head(objs).name, Head(objs).arguments) >> ELSE <<>>)
         \o Method3(Tail(objs))

\* [TOOL: name(args)]: the first marker, pushed when the name is registered.
Method4(marker) ==
    IF marker # <<>> /\ IsRegistered(marker[1].name)
    THEN << ToolCall(marker[1].name, marker[1].arguments) >> ELSE <<>>

\* this.state.context.messages.find(m => m.role === 'user'): the FIRST user turn.
FirstUserKind(messages) ==
    LET idx == { i \in 1..Len(messages) : messages[i].role = "user" }
    IN IF idx = {} THEN "plain"
       ELSE messages[CHOOSE i \in idx : \A j \in idx : i <= j].kind

\* A phrase pattern of method 6 matches the text for funcName; the second
\* pattern (name followed by an opening parenthesis) also matches a marker.
AgentPatternMatches(text, funcName) ==
    \/ funcName \in text.nl
    \/ text.marker # <<>> /\ text.marker[1].name = funcName

RECURSIVE Method6AcceptsAnyMatch(_, _)
\* Method 6 pushing a call for every matching phrase pattern, whatever
\* extractArgumentsFromText found.
Method6AcceptsAnyMatch(text, i) ==
    IF i > Len(AVAILABLE_FUNCTIONS) THEN <<>>
    ELSE LET f == AVAILABLE_FUNCTIONS[i]
             found == f.name \in text.extract
         IN (IF AgentPatternMatches(text, f.name)
             THEN << ToolCall(f.name, IF found THEN "full" ELSE "empty") >>
             ELSE <<>>)
            \o Method6AcceptsAnyMatch(text, i + 1)

RECURSIVE Method6(_, _)
Method6(text, i) ==
    IF i > Len(AVAILABLE_FUNCTIONS) THEN <<>>
    ELSE LET f == AVAILABLE_FUNCTIONS[i]
             found == f.name \in text.extract
         IN (IF AgentPatternMatches(text, f.name) /\ (found \/ f.required = 0)
             THEN << ToolCall(f.name, IF found THEN "full" ELSE "empty") >>
             ELSE <<>>)
            \o Method6(text, i + 1)

\* The cascade without the early return of methods 1 and 2 (their calls pushed
\* to functionCalls like those of the later methods).
detectWithoutEarlyReturn(response, ctx) ==
    IF JsonParseThrows(response.tool_calls) \/ JsonParseThrows(response.function_call)
    THEN Raised
    ELSE
      LET text == response.text
          functionCalls == (IF response.hasToolCalls
                            THEN MapStructCalls(response.tool_calls) ELSE <<>>)
                           \o MapStructCalls(response.function_call)
                           \o Method3(text.json) \o Method4(text.marker)
          userKind == FirstUserKind(ctx.messages)
      IN IF hasWeatherKeywords(userKind)
         THEN Returned(Append(functionCalls, ToolCall("get_weather", "full")))
         ELSE IF ctx.requiresCurrentInfo \/ hasYearKeywords(userKind)
         THEN Returned(Append(functionCalls, ToolCall("search_web", "full")))
         ELSE Returned(functionCalls \o Method6(text, 1))

detectAgentFunctionCalls(response, ctx) ==
    IF response.hasToolCalls
    THEN IF JsonParseThrows(response.tool_calls) THEN Raised
         ELSE Returned(MapStructCalls(response.tool_calls))
    ELSE IF response.function_call # <<>>
    THEN IF JsonParseThrows(response.function_call) THEN Raised
         ELSE Returned(MapStructCalls(response.function_call))
    ELSE
      LET text == response.text
          functionCalls == Method3(text.json) \o Method4(text.marker)
          userKind == FirstUserKind(ctx.messages)
      IN IF hasWeatherKeywords(userKind)
         THEN Returned(Append(functionCalls, ToolCall("get_weather", "full")))
         ELSE IF ctx.requiresCurrentInfo \/ hasYearKeywords(userKind)
         THEN Returned(Append(functionCalls, ToolCall("search_web", "full")))
         ELSE Returned(functionCalls \o Method6(text, 1))

----------------------------------------------------------------------------
(* Program constants *)

\* callAIAgent: const maxIterations = 5
maxIterations == 5

\* validateInput: input.message.length > 2000
MaxMessageLength == 2000

\* defineWorkflow: this.steps
steps ==
    << [name |-> "validate_input",   retries |-> 3],
       [name |-> "prepare_context",  retries |-> 2],
       [name |-> "call_ai_agent",    retries |-> 3],
       [name |-> "process_response", retries |-> 2],
       [name |-> "update_state",     retries |-> 2] >>

----------------------------------------------------------------------------
(* Bounds of the model *)

\* The loop of callAIAgent repeats a model call that failed with an
\* authentication error after the first iteration without counting the pass;
\* the model service fails that way at most this often in one invocation.
MaxAuthRepeats == 1

\* aiCalls counts the model calls of a run up to this number and then stays.
MaxCounted == 6

----------------------------------------------------------------------------
(* Inputs *)

Message(s, l, k) == [isString |-> s, len |-> l, kind |-> k]

HistoryOf(kind) == << UserMsg(kind), AssistantMsg("answer") >>

\* An input whose conversationHistory is an array of turns.
In(m, h) ==
    [message |-> m, conversationHistory |-> h, historyIsArray |-> TRUE, ragContext |-> FALSE]

\* An input with a non-blank ragContext (text retrieved for the message).
InRag(m, h) ==
    [message |-> m, conversationHistory |-> h, historyIsArray |-> TRUE, ragContext |-> TRUE]

\* An input whose conversationHistory is a truthy value that is not an array
\* (it has no map method).
InBadHistory(m) ==
    [message |-> m, conversationHistory |-> <<>>, historyIsArray |-> FALSE, ragContext |-> FALSE]

\* The inputs of the model: every kind of message without history, a plain
\* message after each kind of history, a weather message after a plain
\* history, a plain message with a history that is not an array, and the
\* messages at the borders of validateInput.
Inputs ==
    { In(Message(TRUE, 1, k), <<>>) : k \in MsgKinds }
    \cup { In(Message(TRUE, 1, "plain"), HistoryOf(k)) : k \in {"weather", "year", "plain"} }
    \cup { In(Message(TRUE, 1, "weather"), HistoryOf("plain")) }
    \cup { InBadHistory(Message(TRUE, 1, "plain")) }
    \cup { InRag(Message(TRUE, 1, "plain"), HistoryOf("plain")) }
    \cup { In(m, <<>>) :
              m \in { Message(TRUE, 0, "plain"),
                      Message(FALSE, 1, "plain"),
                      Message(TRUE, MaxMessageLength, "plain"),
                      Message(TRUE, MaxMessageLength + 1, "weather") } }

\* What one env.AI.run call can do: return a response, or fail with an error
\* whose message is read by the includes() tests of the catch branch.
\*   "notLoggedIn": contains 'Not logged in' or 'not logged in'
\*   "authOther":   contains 'authentication' or 'login' but not the above
\*   "other":       none of them
FailKinds == {"notLoggedIn", "authOther", "other"}

isAuthError(kind) == kind \in {"notLoggedIn", "authOther"}

isNotLoggedIn(kind) == kind = "notLoggedIn"

\* Responses the model service gives in the loop.
MarkerText(n, a) == Text(FALSE, <<>>, << ToolCall(n, a) >>, {}, {})

Responses ==
    { Response(FALSE, <<>>, <<>>, PlainText),
      Response(FALSE, <<>>, <<>>, EmptyText),
      Response(TRUE, << StructCall("calculate", "string", "full") >>, <<>>,
               MarkerText("get_current_time", "empty")),
      Response(TRUE, <<>>, <<>>, MarkerText("calculate", "full")),
      Response(TRUE, << StructCall("get_weather", "absent", "empty"),
                        StructCall("get_current_time", "absent", "empty") >>, <<>>, PlainText),
      Response(TRUE, << StructCall("calculate", "badstring", "empty") >>, <<>>, PlainText) }

\* The response has no structured call field and its text no tool-call syntax.
IsPlainResponse(r) ==
    /\ ~r.hasToolCalls
    /\ r.function_call = <<>>
    /\ r.text.json = <<>> /\ r.text.marker = <<>> /\ r.text.nl = {}

----------------------------------------------------------------------------
(* execute: the step loop (workflow.js 339-384) *)

\* What has happened in the current invocation of callAIAgent:
\*   passes          passes of the while loop begun
\*   calls           env.AI.run calls made (primary and fallback)
\*   nonAuthCalls    those of them that did not fail with an authentication error
\*   execs           executeFunction calls made
\*   toolThrew       an executeFunction call raised
\*   authFailed      a model call failed with an authentication error
\*   fallbackFailed  the fallback model call failed
\*   allPlain        every model call so far returned a plain response
\*   exit            "running", or how the invocation ended: "finalized",
\*                   "fallback", "auth", "maxiter" (it returned) or "raised"
Counted(n) == IF n > MaxCounted THEN MaxCounted ELSE n

NewInvocation ==
    [passes |-> 0, calls |-> 0, nonAuthCalls |-> 0, execs |-> 0, toolThrew |-> FALSE,
     authFailed |-> FALSE, fallbackFailed |-> FALSE, allPlain |-> TRUE,
     exit |-> "running"]

\* handleChatRequest while it awaits Promise.race (part_000 612-629): the
\* 45 s timer has not fired, no Response has been returned and nothing has
\* been posted to the session store.
NewRequest == [timedOut |-> FALSE, response |-> Nil, sessionWrites |-> <<>>]

\* ChatSession's constructor (part_001 7-11): this.sessions = new Map().
NoSessions == [id \in {} |-> <<>>]

Init ==
    /\ input \in Inputs
    /\ pc = "handler"
    /\ currentStep = 1
    /\ attempts = 0
    /\ isComplete = FALSE
    /\ delays = <<>>
    /\ handlerCalls = [i \in 1..Len(steps) |-> 0]
    /\ validation = Nil
    /\ context = Nil
    /\ aiResponse = Nil
    /\ agentMetadata = Nil
    /\ processedResponse = Nil
    /\ result = Nil
    /\ error = Nil
    /\ iteration = 0
    /\ currentMessages = <<>>
    /\ toolsUsed = <<>>
    /\ functionCallsExecuted = <<>>
    /\ inv = NewInvocation
    /\ aiCalls = 0
    /\ detResponse = Nil
    /\ detResult = Nil
    /\ detAgain = Nil
    /\ san = Nil
    /\ req = NewRequest
    /\ parked = Nil
    /\ sessions = NoSessions
    /\ rag = Nil

\* The handler of the current step is invoked (await step.handler()).
Invoke == handlerCalls' = [handlerCalls EXCEPT ![currentStep] = @ + 1]

\* The end of a step with isComplete set as soon as the response has been
\* processed, before update_state has run.
StepSucceededCompletesEarly ==
    /\ delays' = delays
    /\ error' = error
    /\ IF currentStep < Len(steps)
       THEN /\ currentStep' = currentStep + 1
            /\ attempts' = 0
            /\ pc' = "handler"
            /\ isComplete' = (currentStep + 1 = Len(steps))
       ELSE /\ currentStep' = currentStep
            /\ attempts' = attempts
            /\ pc' = "done"
            /\ isComplete' = TRUE

\* The handler returned: break, then the next step, or the end of execute.
StepSucceeded ==
    /\ delays' = delays
    /\ error' = error
    /\ IF currentStep < Len(steps)
       THEN /\ currentStep' = currentStep + 1
            /\ attempts' = 0
            /\ pc' = "handler"
            /\ isComplete' = isComplete
       ELSE /\ currentStep' = currentStep
            /\ attempts' = attempts
            /\ pc' = "done"
            /\ isComplete' = TRUE

\* The retry loop sleeping and retrying once more after the last attempt.
StepFailedOneTooMany(cause) ==
    /\ attempts' = attempts + 1
    /\ currentStep' = currentStep
    /\ isComplete' = isComplete
    /\ IF attempts + 1 <= steps[currentStep].retries
       THEN /\ pc' = "sleep"
            /\ delays' = Append(delays, (2 ^ (attempts + 1)) * 1000)
            /\ error' = error
       ELSE /\ pc' = "failed"
            /\ delays' = delays
            /\ error' = [step |-> steps[currentStep].name, lastError |-> cause]

\* The retry loop giving up on an exhausted step and going on with the next.
StepFailedSkipsStep(cause) ==
    /\ attempts' = attempts + 1
    /\ isComplete' = isComplete
    /\ IF attempts + 1 < steps[currentStep].retries
       THEN /\ pc' = "sleep"
            /\ currentStep' = currentStep
            /\ delays' = Append(delays, (2 ^ (attempts + 1)) * 1000)
            /\ error' = error
       ELSE /\ pc' = IF currentStep < Len(steps) THEN "handler" ELSE "failed"
            /\ currentStep' = IF currentStep < Len(steps) THEN currentStep + 1 ELSE currentStep
            /\ delays' = delays
            /\ error' = [step |-> steps[currentStep].name, lastError |-> cause]

\* The handler threw: attempts++, then a backoff sleep, or the step is exhausted
\* and execute throws.
StepFailed(cause) ==
    /\ attempts' = attempts + 1
    /\ currentStep' = currentStep
    /\ isComplete' = isComplete
    /\ IF attempts + 1 < steps[currentStep].retries
       THEN /\ pc' = "sleep"
            /\ delays' = Append(delays, (2 ^ (attempts + 1)) * 1000)
            /\ error' = error
       ELSE /\ pc' = "failed"
            /\ delays' = delays
            /\ error' = [step |-> steps[currentStep].name, lastError |-> cause]

\* The backoff sleep is over: the while loop invokes the handler again.
Wake ==
    /\ pc = "sleep"
    /\ pc' = "handler"
    /\ UNCHANGED << input, currentStep, attempts, isComplete, delays, handlerCalls,
                    validation, context, aiResponse, agentMetadata, processedResponse,
                    result, error, iteration, currentMessages, toolsUsed,
                    functionCallsExecuted, inv, aiCalls, detResponse, detResult,
                    detAgain, san, req, parked, sessions, rag >>

\* validateInput rejecting a message of exactly the maximum length.
validInputBelowMaximum(msg) == msg.isString /\ msg.len > 0 /\ msg.len < MaxMessageLength

validInput(msg) == msg.isString /\ msg.len > 0 /\ msg.len <= MaxMessageLength

\* Step 1 (workflow.js 387-404)
ValidateInput ==
    /\ pc = "handler" /\ currentStep = 1
    /\ Invoke
    /\ IF validInput(input.message)
       THEN /\ validation' = [isValid |-> TRUE, messageLength |-> input.message.len]
            /\ StepSucceeded
       ELSE /\ validation' = validation
            /\ StepFailed("invalid")
    /\ UNCHANGED << input, context, aiResponse, agentMetadata, processedResponse,
                    result, iteration, currentMessages, toolsUsed,
                    functionCallsExecuted, inv, aiCalls, detResponse, detResult,
                    detAgain, san, req, parked, sessions, rag >>

\* Step 2 (workflow.js 407-548); no retrieval context is supplied.
prepareContext(in) ==
    [messages |-> << SystemMsg >> \o in.conversationHistory
                  \o << IF in.ragContext THEN AugmentedUserMsg(in.message.kind)
                                         ELSE UserMsg(in.message.kind) >>,
     conversationLength |-> Len(in.conversationHistory),
     requiresCurrentInfo |-> requiresCurrentInformation(in.message.kind)]

\* conversationHistory.map(...) raises a TypeError when the history is not an
\* array; nothing has been written to this.state.context by then.
PrepareContext ==
    /\ pc = "handler" /\ currentStep = 2
    /\ Invoke
    /\ IF input.historyIsArray
       THEN /\ context' = prepareContext(input)
            /\ StepSucceeded
       ELSE /\ context' = context
            /\ StepFailed("TypeError")
    /\ UNCHANGED << input, validation, aiResponse, agentMetadata, processedResponse,
                    result, iteration, currentMessages, toolsUsed,
                    functionCallsExecuted, inv, aiCalls, detResponse, detResult,
                    detAgain, san, req, parked, sessions, rag >>

----------------------------------------------------------------------------
(* callAIAgent: the agent loop (workflow.js 607-1007) *)

\* The catch block without the success flag and the confidence tag.
ToolResultUntagged(outcome) ==
    IF outcome = "ok"
    THEN [success |-> "absent", error |-> FALSE, confidence |-> "absent"]
    ELSE [success |-> "absent", error |-> TRUE, confidence |-> "absent"]

\* The result object of one executeFunction call: what the executor returned,
\* or the object the catch block builds when it raised.
ToolResult(outcome) ==
    CASE outcome = "ok" ->
            [success |-> "absent", error |-> FALSE, confidence |-> "absent"]
      [] outcome = "errPayload" ->
            [success |-> "absent", error |-> TRUE, confidence |-> "absent"]
      [] OTHER ->
            [success |-> "false", error |-> TRUE, confidence |-> "low"]

\* The confidence tag set on the result object before it is rendered.
tagConfidence(res) ==
    IF res.success = "false" THEN [res EXCEPT !.confidence = "low"]
    ELSE IF ~res.error THEN [res EXCEPT !.confidence = "high"]
    ELSE res

\* The outcomes the executors can produce for the detected calls, one per call.
ExecOutcomes(calls) ==
    { o \in [1..Len(calls) -> {"ok", "errPayload", "throw"}] :
        \A i \in 1..Len(calls) : o[i] \in executeFunction(calls[i].name, calls[i].arguments) }

\* functionResults after the for loop over functionCalls: one entry per call.
FunctionResults(calls, outs) ==
    [i \in 1..Len(calls) |->
        [name |-> calls[i].name, arguments |-> calls[i].arguments,
         threw |-> outs[i] = "throw", result |-> tagConfidence(ToolResult(outs[i]))]]

\* functionCallsExecuted taking an entry for every call, also for one whose
\* executor raised.
ExecutedWithRaised(frs) ==
    [i \in 1..Len(frs) |->
        [name |-> frs[i].name, arguments |-> frs[i].arguments, result |-> frs[i].result]]

RECURSIVE Executed(_)
\* The entries pushed to functionCallsExecuted: the calls that did not raise.
Executed(frs) ==
    IF frs = <<>> THEN <<>>
    ELSE (IF Head(frs).threw THEN <<>>
          ELSE << [name |-> Head(frs).name, arguments |-> Head(frs).arguments,
                   result |-> Head(frs).result] >>)
         \o Executed(Tail(frs))

Names(entries) == [i \in 1..Len(entries) |-> entries[i].name]

ToolMsg(fr) ==
    Msg("tool", "toolresult", fr.name, <<>>, fr.result,
        IF fr.name = "search_web" THEN "search" ELSE "json")

\* The tool messages in the reverse of the order of the calls.
ToolMsgsReversed(frs) == [i \in 1..Len(frs) |-> ToolMsg(frs[Len(frs) + 1 - i])]

ToolMsgs(frs) == [i \in 1..Len(frs) |-> ToolMsg(frs[i])]

ToolCallsMsg(calls) == Msg("assistant", "empty", "", calls, NoResult, "text")

InstructionMsg == Msg("user", "instruction", "", <<>>, NoResult, "text")

IsNotInstruction(m) == m # InstructionMsg

\* The pushes of a tool pass, with the instructions of earlier passes taken
\* out of the sequence so that only the newest one is kept.
appendToolTurnOneInstruction(messages, calls, frs) ==
    SelectSeq(messages, IsNotInstruction)
        \o << ToolCallsMsg(calls) >> \o ToolMsgs(frs) \o << InstructionMsg >>

\* The three pushes to currentMessages of a tool pass (lines 691-750): the
\* assistant turn carrying the calls, one tool message per result, the
\* instruction.
appendToolTurn(messages, calls, frs) ==
    messages \o << ToolCallsMsg(calls) >> \o ToolMsgs(frs) \o << InstructionMsg >>

hasToolFailures(fce) == \E i \in 1..Len(fce) : fce[i].result.success = "false"

----------------------------------------------------------------------------
(* The sanitizer of the final answer (workflow.js 758-888) *)

\* An answer text as the sanitizer reads it: whether it has leading or trailing
\* whitespace, and its sentences in order. A sentence has a length and a kind:
\*   "content"  kept as it is
\*   "verbose"  matches one of verbosePatterns / disclaimerStarters (removed)
\*   "repeat"   holds a run of more than ten equal characters
\*   "dots"     a run of full stops, halved by the final punctuation cleanup
\*   "marker"   the uncertainty note, "notice" the fixed guidance message,
\*   "apology"  the fixed text used for an empty response
Sentence(k, l) == [kind |-> k, len |-> l]

AnswerText(padded, body) == [padded |-> padded, body |-> body]

\* if (cleanedResponse.length < 10)
MinAnswerLength == 10

RECURSIVE SumLen(_)
SumLen(body) == IF body = <<>> THEN 0 ELSE Head(body).len + SumLen(Tail(body))

\* The length of a text whose whitespace has been collapsed: its sentences
\* joined by single spaces.
TextLen(body) == IF body = <<>> THEN 0 ELSE SumLen(body) + Len(body) - 1

UncertaintyMarker == Sentence("marker", 80)
GuidanceNotice == Sentence("notice", 200)
Apology == Sentence("apology", 85)

\* responseText after the empty check of lines 758-761.
responseTextOf(raw) ==
    IF raw.body = <<>> THEN AnswerText(FALSE, << Apology >>) ELSE raw

IsNotVerbose(sentence) == sentence.kind # "verbose"

\* The five passes over verbosePatterns and the pass over disclaimerStarters.
removeVerbose(body) == SelectSeq(body, IsNotVerbose)

\* hasRepeatedChars
hasRepeatedChars(body) == \E i \in 1..Len(body) : body[i].kind = "repeat"

\* .replace(/\.\s*\./g, '.'): a run of full stops loses every second one.
punctuationCleanup(body) ==
    [i \in 1..Len(body) |->
        IF body[i].kind = "dots" THEN Sentence("dots", (body[i].len + 1) \div 2)
        ELSE body[i]]

\* The sanitizer without the final length check.
sanitizeNoRevert(responseText, fce) ==
    LET marked == IF hasToolFailures(fce)
                  THEN << UncertaintyMarker >> \o responseText.body
                  ELSE responseText.body
        removed == removeVerbose(marked)
        replaced == IF hasRepeatedChars(removed) THEN << GuidanceNotice >> ELSE removed
    IN punctuationCleanup(replaced)

\* cleanedResponse as stored in finalResponse.content: the trimmed text, the
\* uncertainty note, the pattern removals, the noise replacement, the
\* punctuation cleanup, and the original trimmed text again when fewer than
\* ten characters are left.
sanitize(responseText, fce) ==
    LET marked == IF hasToolFailures(fce)
                  THEN << UncertaintyMarker >> \o responseText.body
                  ELSE responseText.body
        removed == removeVerbose(marked)
        replaced == IF hasRepeatedChars(removed) THEN << GuidanceNotice >> ELSE removed
        cleaned == punctuationCleanup(replaced)
    IN IF TextLen(cleaned) < MinAnswerLength THEN responseText.body ELSE cleaned

\* The content of an answer: where the text comes from, whether it went through
\* the pattern removals of the final-answer branch, and whether the uncertainty
\* note was put in front of it.
Content(src, sanitized, marker) == [src |-> src, sanitized |-> sanitized, marker |-> marker]

AiResponse(content, model, err, tools, fce) ==
    [content |-> content, model |-> model, error |-> err,
     toolsUsed |-> tools, functionCallsExecuted |-> fce]

\* The final-answer branch (workflow.js 755-898).
FinalAnswer(text, tools, fce) ==
    AiResponse(Content(IF text.empty THEN "apology" ELSE "model", TRUE, hasToolFailures(fce)),
               "llama-3.3-70b-instruct", "", tools, fce)

AuthAnswer ==
    AiResponse(Content("auth", FALSE, FALSE), "error-auth", "Authentication required",
               <<>>, <<>>)

FallbackAnswer(text) ==
    AiResponse(Content(IF text.empty THEN "fallbackObject" ELSE "fallbackModel", FALSE, FALSE),
               "llama-3.1-8b-instruct", "", <<>>, <<>>)

\* The answer for the exhausted loop without the tools used so far.
MaxIterationsAnswerNoTools(tools, fce) ==
    AiResponse(Content("maxiter", FALSE, FALSE), "error", "Max agent iterations reached",
               <<>>, <<>>)

MaxIterationsAnswer(tools, fce) ==
    AiResponse(Content("maxiter", FALSE, FALSE), "error", "Max agent iterations reached",
               tools, fce)

\* The return of callAIAgent with the final pass counted as an iteration.
ReturnCountsFinalPass(final, tools, fce, it, invNow, exit) ==
    /\ aiResponse' = final
    /\ agentMetadata' = [toolsUsed |-> tools, functionCallsExecuted |-> fce,
                         iterations |-> it + 1]
    /\ inv' = [invNow EXCEPT !.exit = exit]
    /\ StepSucceeded

\* Lines 1001-1006, then the handler returns to execute.
Return(final, tools, fce, it, invNow, exit) ==
    /\ aiResponse' = final
    /\ agentMetadata' = [toolsUsed |-> tools, functionCallsExecuted |-> fce,
                         iterations |-> it]
    /\ inv' = [invNow EXCEPT !.exit = exit]
    /\ StepSucceeded

\* throw error / throw error2: the handler fails, execute counts the attempt.
Throw(cause, invNow) ==
    /\ inv' = [invNow EXCEPT !.exit = "raised"]
    /\ StepFailed(cause)
    /\ UNCHANGED << aiResponse, agentMetadata >>

StayInLoop(invNow, where) ==
    /\ inv' = invNow
    /\ pc' = where
    /\ UNCHANGED << currentStep, attempts, isComplete, delays, error,
                    aiResponse, agentMetadata >>

Called(i, plain, authFail) ==
    [i EXCEPT !.calls = @ + 1,
              !.nonAuthCalls = IF authFail THEN @ ELSE @ + 1,
              !.authFailed = @ \/ authFail,
              !.allPlain = @ /\ plain]

\* callAIAgent keeping its message sequence and its tool records in the
\* workflow object, so that a retried attempt goes on from where the failed
\* one stopped.
CallAIAgentBeginKeepsState ==
    /\ pc = "handler" /\ currentStep = 3
    /\ Invoke
    /\ iteration' = 0
    /\ currentMessages' = IF currentMessages = <<>> THEN context.messages ELSE currentMessages
    /\ toolsUsed' = toolsUsed
    /\ functionCallsExecuted' = functionCallsExecuted
    /\ inv' = NewInvocation
    /\ pc' = "awaitingModel"
    /\ UNCHANGED << input, currentStep, attempts, isComplete, delays, validation,
                    context, aiResponse, agentMetadata, processedResponse, result,
                    error, aiCalls, detResponse, detResult,
                    detAgain, san, req, parked, sessions, rag >>

\* Lines 607-620: the handler of step 3 is invoked.
CallAIAgentBegin ==
    /\ pc = "handler" /\ currentStep = 3
    /\ Invoke
    /\ iteration' = 0
    /\ currentMessages' = context.messages
    /\ toolsUsed' = <<>>
    /\ functionCallsExecuted' = <<>>
    /\ inv' = NewInvocation
    /\ pc' = "awaitingModel"
    /\ UNCHANGED << input, currentStep, attempts, isComplete, delays, validation,
                    context, aiResponse, agentMetadata, processedResponse, result,
                    error, aiCalls, detResponse, detResult,
                    detAgain, san, req, parked, sessions, rag >>

\* The while condition off by one.
whileContinuesInclusive(it) == it <= maxIterations

\* The while condition of the loop, tested after a pass that ended with
\* iteration++.
whileContinues(it) == it < maxIterations

\* One pass in which the primary model answers and the detector returns calls:
\* they are executed, the messages appended, iteration++ (lines 640-754).
AgentToolPass ==
    /\ pc = "awaitingModel"
    /\ \E r \in Responses :
        LET d == detectAgentFunctionCalls(r, context)
        IN /\ ~d.raised /\ d.calls # <<>>
           /\ \E outs \in ExecOutcomes(d.calls) :
                LET frs == FunctionResults(d.calls, outs)
                    fce == functionCallsExecuted \o Executed(frs)
                    tools == toolsUsed \o Names(Executed(frs))
                    it == iteration + 1
                    invNow == [Called(inv, IsPlainResponse(r), FALSE) EXCEPT
                                 !.passes = @ + 1,
                                 !.execs = @ + Len(d.calls),
                                 !.toolThrew = @ \/ (\E i \in 1..Len(frs) : frs[i].threw)]
                IN /\ currentMessages' = appendToolTurn(currentMessages, d.calls, frs)
                   /\ functionCallsExecuted' = fce
                   /\ toolsUsed' = tools
                   /\ iteration' = it
                   /\ IF whileContinues(it)
                      THEN StayInLoop(invNow, "awaitingModel")
                      ELSE Return(MaxIterationsAnswer(tools, fce), tools, fce, it,
                                  invNow, "maxiter")
    /\ aiCalls' = Counted(aiCalls + 1)
    /\ UNCHANGED << input, handlerCalls, validation, context, processedResponse,
                    result, detResponse, detResult,
                    detAgain, san, req, parked, sessions, rag >>

\* One pass in which the primary model answers and the detector returns no call:
\* the text is cleaned and becomes the final answer (lines 755-904).
AgentFinalAnswer ==
    /\ pc = "awaitingModel"
    /\ \E r \in Responses :
        LET d == detectAgentFunctionCalls(r, context)
        IN /\ ~d.raised /\ d.calls = <<>>
           /\ Return(FinalAnswer(r.text, toolsUsed, functionCallsExecuted),
                     toolsUsed, functionCallsExecuted, iteration,
                     [Called(inv, IsPlainResponse(r), FALSE) EXCEPT !.passes = @ + 1],
                     "finalized")
    /\ aiCalls' = Counted(aiCalls + 1)
    /\ UNCHANGED << input, handlerCalls, validation, context, processedResponse,
                    result, iteration, currentMessages, toolsUsed,
                    functionCallsExecuted, detResponse, detResult,
                    detAgain, san, req, parked, sessions, rag >>

\* The catch branch trying the fallback model on every iteration.
catchBranchFallbackAlways(authError, it) ==
    IF authError /\ it = 0 THEN "authAnswer"
    ELSE IF ~authError THEN "fallback"
    ELSE "continue"

\* The catch branch of the loop (lines 906-984), for an error caught in a pass
\* at iteration it: "authAnswer" (break with the remediation answer),
\* "fallback" (call the fallback model), "throw", or "continue" (no branch
\* applies and control falls out of the catch block, back to the while test).
catchBranch(authError, it) ==
    IF authError /\ it = 0 THEN "authAnswer"
    ELSE IF it = 0 /\ ~authError THEN "fallback"
    ELSE IF ~authError THEN "throw"
    ELSE "continue"

\* The fallback's own catch (lines 958-980): the remediation answer when the
\* message says 'Not logged in' / 'not logged in', throw error2 otherwise.
fallbackCatchBranch(kind) == IF isNotLoggedIn(kind) THEN "authAnswer" ELSE "throw"

\* What a pass that ends in the catch block does.
Caught(authError, invNow) ==
    LET branch == catchBranch(authError, iteration)
    IN CASE branch = "authAnswer" ->
              Return(AuthAnswer, toolsUsed, functionCallsExecuted, iteration, invNow, "auth")
         [] branch = "fallback" -> StayInLoop(invNow, "awaitingFallback")
         [] branch = "throw" -> Throw("model", invNow)
         [] OTHER -> /\ inv.calls - inv.nonAuthCalls < MaxAuthRepeats
                     /\ StayInLoop(invNow, "awaitingModel")

\* A pass in which env.AI.run(primaryModel) fails.
AgentModelFails ==
    /\ pc = "awaitingModel"
    /\ \E kind \in FailKinds :
        Caught(isAuthError(kind),
               [Called(inv, FALSE, isAuthError(kind)) EXCEPT !.passes = @ + 1])
    /\ aiCalls' = Counted(aiCalls + 1)
    /\ UNCHANGED << input, handlerCalls, validation, context, processedResponse,
                    result, iteration, currentMessages, toolsUsed,
                    functionCallsExecuted, detResponse, detResult,
                    detAgain, san, req, parked, sessions, rag >>

\* A pass in which the primary model answers and the detector raises (JSON.parse
\* of a structured call's argument string): the error reaches the same catch
\* block; its message names no authentication problem.
AgentDetectorRaises ==
    /\ pc = "awaitingModel"
    /\ \E r \in Responses :
        /\ detectAgentFunctionCalls(r, context).raised
        /\ Caught(FALSE, [Called(inv, FALSE, FALSE) EXCEPT !.passes = @ + 1])
    /\ aiCalls' = Counted(aiCalls + 1)
    /\ UNCHANGED << input, handlerCalls, validation, context, processedResponse,
                    result, iteration, currentMessages, toolsUsed,
                    functionCallsExecuted, detResponse, detResult,
                    detAgain, san, req, parked, sessions, rag >>

\* env.AI.run(fallbackModel) answers (lines 940-957): its text is the answer.
AgentFallbackAnswers ==
    /\ pc = "awaitingFallback"
    /\ \E r \in Responses :
        Return(FallbackAnswer(r.text), toolsUsed, functionCallsExecuted, iteration,
               Called(inv, IsPlainResponse(r), FALSE), "fallback")
    /\ aiCalls' = Counted(aiCalls + 1)
    /\ UNCHANGED << input, handlerCalls, validation, context, processedResponse,
                    result, iteration, currentMessages, toolsUsed,
                    functionCallsExecuted, detResponse, detResult,
                    detAgain, san, req, parked, sessions, rag >>

\* env.AI.run(fallbackModel) fails (lines 958-980).
AgentFallbackFails ==
    /\ pc = "awaitingFallback"
    /\ \E kind \in FailKinds :
        LET invNow == [Called(inv, FALSE, isAuthError(kind)) EXCEPT !.fallbackFailed = TRUE]
        IN IF fallbackCatchBranch(kind) = "authAnswer"
           THEN Return(AuthAnswer, toolsUsed, functionCallsExecuted, iteration,
                       invNow, "auth")
           ELSE Throw("fallback", invNow)
    /\ aiCalls' = Counted(aiCalls + 1)
    /\ UNCHANGED << input, handlerCalls, validation, context, processedResponse,
                    result, iteration, currentMessages, toolsUsed,
                    functionCallsExecuted, detResponse, detResult,
                    detAgain, san, req, parked, sessions, rag >>

----------------------------------------------------------------------------
(* Steps 4 and 5 *)

\* Step 4 (workflow.js 1286-1331)
ProcessResponse ==
    /\ pc = "handler" /\ currentStep = 4
    /\ Invoke
    /\ processedResponse' = [content |-> aiResponse.content]
    /\ StepSucceeded
    /\ UNCHANGED << input, validation, context, aiResponse, agentMetadata, result,
                    iteration, currentMessages, toolsUsed, functionCallsExecuted,
                    inv, aiCalls, detResponse, detResult,
                    detAgain, san, req, parked, sessions, rag >>

\* The assistant entry updateState appends to the history.
AnswerEntry(content, metadata) ==
    [role |-> "assistant", kind |-> "answer", content |-> content,
     agentMetadata |-> metadata]

\* updatedHistory with the last user turn of the context, as sent to the
\* model, in place of input.message.
updatedHistoryFromContext(in, processed, metadata) ==
    in.conversationHistory
    \o << context.messages[Len(context.messages)],
          AnswerEntry(processed.content, metadata) >>

\* updatedHistory (workflow.js 1368-1377): the input history, the message as
\* the user wrote it, and the processed answer.
updatedHistory(in, processed, metadata) ==
    in.conversationHistory
    \o << UserMsg(in.message.kind), AnswerEntry(processed.content, metadata) >>

\* Step 5 (workflow.js 1334-1386)
UpdateState ==
    /\ pc = "handler" /\ currentStep = 5
    /\ Invoke
    /\ result' =
         [response |-> processedResponse.content,
          conversationLength |-> context.conversationLength + 1,
          model |-> aiResponse.model,
          agent |-> [toolsUsed |-> agentMetadata.toolsUsed,
                     functionCallsExecuted |-> agentMetadata.functionCallsExecuted,
                     iterations |-> agentMetadata.iterations],
          conversationHistory |-> updatedHistory(input, processedResponse, agentMetadata)]
    /\ StepSucceeded
    /\ UNCHANGED << input, validation, context, aiResponse, agentMetadata,
                    processedResponse, iteration, currentMessages, toolsUsed,
                    functionCallsExecuted, inv, aiCalls, detResponse, detResult,
                    detAgain, san, req, parked, sessions, rag >>

----------------------------------------------------------------------------
(* The pipeline *)

Next ==
    \/ ValidateInput
    \/ PrepareContext
    \/ CallAIAgentBegin
    \/ AgentToolPass
    \/ AgentFinalAnswer
    \/ AgentModelFails
    \/ AgentDetectorRaises
    \/ AgentFallbackAnswers
    \/ AgentFallbackFails
    \/ ProcessResponse
    \/ UpdateState
    \/ Wake

Spec == Init /\ [][Next]_vars

----------------------------------------------------------------------------
(* The detector on its own: detectAgentFunctionCalls applied, in a prepared *)
(* context, to every response of a bounded set.                            *)

DetStructs ==
    { << FALSE, <<>>, <<>> >>,
      << TRUE, <<>>, <<>> >>,
      << TRUE, << StructCall("calculate", "string", "full") >>, <<>> >>,
      << TRUE, << StructCall("get_weather", "absent", "empty"),
                  StructCall(UnknownTool, "object", "full") >>, <<>> >>,
      << TRUE, << StructCall("calculate", "badstring", "empty") >>, <<>> >>,
      << FALSE, <<>>, << StructCall("get_current_time", "absent", "empty") >> >>,
      << FALSE, <<>>, << StructCall("search_web", "badstring", "empty") >> >> }

DetTexts ==
    { EmptyText } \cup
    { Text(FALSE, j, m, n, x) :
        j \in { <<>>,
                << JsonObj(TRUE, "get_weather", "empty") >>,
                << JsonObj(FALSE, "calculate", "empty") >>,
                << JsonObj(TRUE, UnknownTool, "empty"), JsonObj(TRUE, "calculate", "full") >> },
        m \in { <<>>, << ToolCall("calculate", "full") >>, << ToolCall(UnknownTool, "full") >> },
        n \in { {}, {"get_current_time"}, {"calculate", "get_weather"} },
        x \in { {}, {"calculate"} } }

DetResponses == { Response(st[1], st[2], st[3], t) : st \in DetStructs, t \in DetTexts }

\* A detector that takes the auto-trigger as used up once it has run: it
\* clears context.requiresCurrentInfo.
DetectorCallConsuming ==
    /\ pc = "awaitingModel"
    /\ detResponse = Nil
    /\ \E r \in DetResponses :
        /\ detResponse' = r
        /\ detResult' = detectAgentFunctionCalls(r, context)
    /\ context' = [context EXCEPT !.requiresCurrentInfo = FALSE]
    /\ UNCHANGED << input, pc, currentStep, attempts, isComplete, delays, handlerCalls,
                    validation, aiResponse, agentMetadata, processedResponse,
                    result, error, iteration, currentMessages, toolsUsed,
                    functionCallsExecuted, inv, aiCalls, detAgain, san, req, parked, sessions, rag >>

DetectorCall ==
    /\ pc = "awaitingModel"
    /\ detResponse = Nil
    /\ \E r \in DetResponses :
        /\ detResponse' = r
        /\ detResult' = detectAgentFunctionCalls(r, context)
    /\ UNCHANGED << input, pc, currentStep, attempts, isComplete, delays, handlerCalls,
                    validation, context, aiResponse, agentMetadata, processedResponse,
                    result, error, iteration, currentMessages, toolsUsed,
                    functionCallsExecuted, inv, aiCalls, detAgain, san, req, parked, sessions, rag >>

\* The detector called once more with the same response text and raw response:
\* it reads this.state.context and this.state.input as the first call left them.
DetectorCallAgain ==
    /\ pc = "awaitingModel"
    /\ detResponse # Nil
    /\ detAgain = Nil
    /\ detAgain' = detectAgentFunctionCalls(detResponse, context)
    /\ UNCHANGED << input, pc, currentStep, attempts, isComplete, delays, handlerCalls,
                    validation, context, aiResponse, agentMetadata, processedResponse,
                    result, error, iteration, currentMessages, toolsUsed,
                    functionCallsExecuted, inv, aiCalls, detResponse, detResult,
                    san, req, parked, sessions, rag >>

DetNext ==
    \/ ValidateInput
    \/ Wake
    \/ PrepareContext
    \/ CallAIAgentBegin
    \/ DetectorCall
    \/ DetectorCallAgain

DetSpec == Init /\ [][DetNext]_vars

----------------------------------------------------------------------------
(* The sanitizer on its own: the final-answer branch of callAIAgent applied *)
(* to every answer text of a bounded set.                                  *)

\* The longest answer text handed to the sanitizer, in sentences.
MaxSentences == 3

\* The length of the longest answer passage: more than the 2000 characters
\* the first version of processResponse let through (workflow.js 216).
LongAnswerLength == 2001

SanSentences ==
    { Sentence("content", 4), Sentence("content", 5), Sentence("verbose", 20),
      Sentence("repeat", 12), Sentence("dots", 10), Sentence("content", LongAnswerLength) }

SanTexts ==
    { AnswerText(padded, body) :
        padded \in BOOLEAN,
        body \in UNION { [1..n -> SanSentences] : n \in 0..MaxSentences } }

SanitizerCall ==
    /\ pc = "awaitingModel"
    /\ san = Nil
    /\ \E raw \in SanTexts :
        san' = [raw |-> raw,
                responseText |-> responseTextOf(raw),
                output |-> sanitize(responseTextOf(raw), functionCallsExecuted),
                processed |-> Nil]
    /\ UNCHANGED << input, pc, currentStep, attempts, isComplete, delays, handlerCalls,
                    validation, context, aiResponse, agentMetadata, processedResponse,
                    result, error, iteration, currentMessages, toolsUsed,
                    functionCallsExecuted, inv, aiCalls, detResponse, detResult,
                    detAgain, req, parked, sessions, rag >>

\* The fixed text processResponse uses for an empty content (line 1314).
ProperResponseApology == Sentence("apology", 92)

\* processedContent of processResponse (workflow.js 1301-1318): the content
\* trimmed, the fixed text when nothing is left, and no truncation.
processedContent(content) ==
    IF TextLen(content) = 0 THEN << ProperResponseApology >> ELSE content

\* process_response applied to the content the final-answer branch stored.
SanProcessResponse ==
    /\ pc = "awaitingModel"
    /\ san # Nil
    /\ san.processed = Nil
    /\ san' = [san EXCEPT !.processed =
                   [content |-> processedContent(san.output),
                    originalLength |-> TextLen(san.output),
                    processedLength |-> TextLen(processedContent(san.output))]]
    /\ UNCHANGED << input, pc, currentStep, attempts, isComplete, delays, handlerCalls,
                    validation, context, aiResponse, agentMetadata, processedResponse,
                    result, error, iteration, currentMessages, toolsUsed,
                    functionCallsExecuted, inv, aiCalls, detResponse, detResult,
                    detAgain, req, parked, sessions, rag >>

SanNext ==
    \/ ValidateInput
    \/ Wake
    \/ PrepareContext
    \/ CallAIAgentBegin
    \/ SanitizerCall
    \/ SanProcessResponse

SanSpec == Init /\ [][SanNext]_vars

----------------------------------------------------------------------------
(* handleChatRequest around the pipeline (src/unnamed/part_000 612-721):   *)
(* execute is raced against a 45 s timer, the result is posted to the      *)
(* session store and returned, an error becomes an error response.         *)

\* What handleChatRequest hands to execute: a message for which `!message`
\* is false (line 70) and a history that has a map method (line 83).
ReqInputs ==
    { i \in Inputs : i.historyIsArray /\ ~(i.message.isString /\ i.message.len = 0) }

ReqInit == Init /\ input \in ReqInputs

\* The catch block's test on error.message (lines 691-695). The message of
\* execute's error ends with the message of the step's last error; of the
\* errors a step can raise only a failed fallback call can carry the words
\* 'authentication' or 'login'.
requestIsAuthError(err, invNow) == err.lastError = "fallback" /\ invNow.authFailed

\* Lines 714-720 for the error the timer rejects with (line 626).
TimeoutResponse ==
    [status |-> 500, error |-> "Internal server error", details |-> "Request timeout"]

\* Lines 697-720 for an error thrown by execute.
ErrorResponse(err, invNow) ==
    IF requestIsAuthError(err, invNow)
    THEN [status |-> 401, error |-> "Authentication required", details |-> "wrangler login"]
    ELSE [status |-> 500, error |-> "Internal server error", details |-> err]

\* Lines 667-685.
OkResponse(res) ==
    [status |-> 200, response |-> res.response, agent |-> res.agent,
     conversationLength |-> res.conversationLength, model |-> res.model]

\* The timer fires while execute is suspended in a model call or a backoff
\* sleep: Promise.race rejects, the catch block answers. Nothing is told to
\* the workflow, whose promise stays pending. (The sleeps of one step last
\* 6 s together, so the timer fires in a sleep only when a model call has
\* taken time before.)
Timeout ==
    /\ req.response = Nil
    /\ \/ pc \in {"awaitingModel", "awaitingFallback"}
       \/ pc = "sleep" /\ aiCalls > 0
    /\ req' = [req EXCEPT !.timedOut = TRUE, !.response = TimeoutResponse]
    /\ UNCHANGED << input, pc, currentStep, attempts, isComplete, delays, handlerCalls,
                    validation, context, aiResponse, agentMetadata, processedResponse,
                    result, error, iteration, currentMessages, toolsUsed,
                    functionCallsExecuted, inv, aiCalls, detResponse, detResult,
                    detAgain, san, parked, sessions, rag >>

\* ChatSession.handleGetSessions (part_001 160-170): the ids of the sessions
\* with their message counts; this.sessions is read only.
handleGetSessions(store) ==
    [sessions |-> store, status |-> 200,
     body |-> [id \in DOMAIN store |-> Len(store[id])]]

\* ChatSession.fetch (part_001 13-33) for a request that is no WebSocket
\* upgrade: the path alone selects the handler, neither the method nor the
\* body of the request is read. (The paths /api/sessions/create and
\* /api/sessions/clear are not requested by handleChatRequest.)
ChatSessionFetch(path, body, store) ==
    IF path = "/api/sessions"
    THEN handleGetSessions(store)
    ELSE [sessions |-> store, status |-> 404, body |-> "Not Found"]

\* The body handleChatRequest posts to the session store (lines 653-656).
StoreBody(res) == [sessionId |-> "default", messages |-> res.conversationHistory]

\* A handler without the try/catch around the call of the session store: its
\* failure reaches the outer catch block.
RespondStoreFatal ==
    /\ req.response = Nil
    /\ pc = "done"
    /\ \E storeOk \in BOOLEAN :
        /\ req' = [req EXCEPT
                     !.response = IF storeOk THEN OkResponse(result)
                                  ELSE [status |-> 500, error |-> "Internal server error",
                                        details |-> "storage"],
                     !.sessionWrites = IF storeOk THEN Append(@, StoreBody(result)) ELSE @]
        /\ sessions' = IF storeOk
                       THEN ChatSessionFetch("/api/sessions", StoreBody(result), sessions).sessions
                       ELSE sessions
    /\ UNCHANGED << input, pc, currentStep, attempts, isComplete, delays, handlerCalls,
                    validation, context, aiResponse, agentMetadata, processedResponse,
                    result, error, iteration, currentMessages, toolsUsed,
                    functionCallsExecuted, inv, aiCalls, detResponse, detResult,
                    detAgain, san, parked, rag >>

\* execute returned first (lines 629-685): the conversation is posted to the
\* session store, whose fetch either answers or fails; a failure is only
\* logged, and the answer is returned. (result.response is never empty, so
\* lines 632-642 do not apply.)
Respond ==
    /\ req.response = Nil
    /\ pc = "done"
    /\ \E storeOk \in BOOLEAN :
        /\ req' = [req EXCEPT
                     !.response = OkResponse(result),
                     !.sessionWrites = IF storeOk THEN Append(@, StoreBody(result)) ELSE @]
        /\ sessions' = IF storeOk
                       THEN ChatSessionFetch("/api/sessions", StoreBody(result), sessions).sessions
                       ELSE sessions
    /\ UNCHANGED << input, pc, currentStep, attempts, isComplete, delays, handlerCalls,
                    validation, context, aiResponse, agentMetadata, processedResponse,
                    result, error, iteration, currentMessages, toolsUsed,
                    functionCallsExecuted, inv, aiCalls, detResponse, detResult,
                    detAgain, san, parked, rag >>

\* execute threw first (lines 687-721).
RespondError ==
    /\ req.response = Nil
    /\ pc = "failed"
    /\ req' = [req EXCEPT !.response = ErrorResponse(error, inv)]
    /\ UNCHANGED << input, pc, currentStep, attempts, isComplete, delays, handlerCalls,
                    validation, context, aiResponse, agentMetadata, processedResponse,
                    result, error, iteration, currentMessages, toolsUsed,
                    functionCallsExecuted, inv, aiCalls, detResponse, detResult,
                    detAgain, san, parked, sessions, rag >>

ReqNext ==
    \/ ValidateInput
    \/ PrepareContext
    \/ CallAIAgentBegin
    \/ AgentToolPass
    \/ AgentFinalAnswer
    \/ AgentModelFails
    \/ AgentDetectorRaises
    \/ AgentFallbackAnswers
    \/ AgentFallbackFails
    \/ ProcessResponse
    \/ UpdateState
    \/ Wake
    \/ Timeout
    \/ Respond
    \/ RespondError

ReqSpec == ReqInit /\ [][ReqNext]_vars

----------------------------------------------------------------------------
(* Two chat requests in one isolate. handleChatRequest creates a           *)
(* ChatWorkflow per request (part_000 614-621); JavaScript runs one of     *)
(* them at a time and changes over where the running one awaits. The       *)
(* variables above are the request that is running, parked is the other.   *)

\* The most model calls one request makes here.
MaxConcCalls == 2

ConcInputs ==
    { In(Message(TRUE, 1, "plain"), <<>>),
      In(Message(TRUE, 1, "weather"), HistoryOf("plain")) }

\* The variables of a run with toolsUsed kept in one place for all runs.
OwnedWithoutToolsUsed ==
    { "input", "pc", "currentStep", "attempts", "isComplete", "delays",
      "handlerCalls", "validation", "context", "aiResponse", "agentMetadata",
      "processedResponse", "result", "error", "iteration", "currentMessages",
      "functionCallsExecuted", "inv", "aiCalls" }

\* What belongs to one request: the fields of its ChatWorkflow instance
\* (constructor, workflow.js 300-305, and this.state, line 342), the locals
\* of its execute call and the locals of its callAIAgent invocation (lines
\* 607-620). workflow.js and functions.js keep nothing else: they have no
\* module-level variable, and the tool registry is never written.
Owned ==
    { "input", "pc", "currentStep", "attempts", "isComplete", "delays",
      "handlerCalls", "validation", "context", "aiResponse", "agentMetadata",
      "processedResponse", "result", "error", "iteration", "currentMessages",
      "toolsUsed", "functionCallsExecuted", "inv", "aiCalls" }

\* The request that is running, as a record.
Running ==
    [ input |-> input, pc |-> pc, currentStep |-> currentStep,
     attempts |-> attempts, isComplete |-> isComplete, delays |-> delays,
     handlerCalls |-> handlerCalls, validation |-> validation,
     context |-> context, aiResponse |-> aiResponse,
     agentMetadata |-> agentMetadata,
     processedResponse |-> processedResponse, result |-> result,
     error |-> error, iteration |-> iteration,
     currentMessages |-> currentMessages, toolsUsed |-> toolsUsed,
     functionCallsExecuted |-> functionCallsExecuted, inv |-> inv,
     aiCalls |-> aiCalls ]

\* A request for which execute has not been called yet.
NewInstance(in) ==
    [ input |-> in, pc |-> "handler", currentStep |-> 1, attempts |-> 0,
      isComplete |-> FALSE, delays |-> <<>>,
      handlerCalls |-> [i \in 1..Len(steps) |-> 0], validation |-> Nil,
      context |-> Nil, aiResponse |-> Nil, agentMetadata |-> Nil,
      processedResponse |-> Nil, result |-> Nil, error |-> Nil, iteration |-> 0,
      currentMessages |-> <<>>, toolsUsed |-> <<>>, functionCallsExecuted |-> <<>>,
      inv |-> NewInvocation, aiCalls |-> 0 ]

ConcInit ==
    /\ input \in ConcInputs
    /\ pc = "handler"
    /\ currentStep = 1
    /\ attempts = 0
    /\ isComplete = FALSE
    /\ delays = <<>>
    /\ handlerCalls = [i \in 1..Len(steps) |-> 0]
    /\ validation = Nil
    /\ context = Nil
    /\ aiResponse = Nil
    /\ agentMetadata = Nil
    /\ processedResponse = Nil
    /\ result = Nil
    /\ error = Nil
    /\ iteration = 0
    /\ currentMessages = <<>>
    /\ toolsUsed = <<>>
    /\ functionCallsExecuted = <<>>
    /\ inv = NewInvocation
    /\ aiCalls = 0
    /\ detResponse = Nil
    /\ detResult = Nil
    /\ detAgain = Nil
    /\ san = Nil
    /\ req = NewRequest
    /\ parked \in { NewInstance(in) : in \in ConcInputs }
    /\ sessions = NoSessions
    /\ rag = Nil

\* What the request that resumes finds in a variable: its own value when the
\* variable belongs to the request, the value left there otherwise.
Take(name, left, own) == IF name \in Owned THEN own ELSE left

\* The running request is suspended in an await that takes time (a model
\* call, a backoff sleep) or its execute has ended, and the event loop goes
\* on with the other request.
Switch ==
    /\ pc \in {"awaitingModel", "awaitingFallback", "sleep", "done", "failed"}
    /\ parked' = Running
    /\ input' = Take("input", input, parked.input)
    /\ pc' = Take("pc", pc, parked.pc)
    /\ currentStep' = Take("currentStep", currentStep, parked.currentStep)
    /\ attempts' = Take("attempts", attempts, parked.attempts)
    /\ isComplete' = Take("isComplete", isComplete, parked.isComplete)
    /\ delays' = Take("delays", delays, parked.delays)
    /\ handlerCalls' = Take("handlerCalls", handlerCalls, parked.handlerCalls)
    /\ validation' = Take("validation", validation, parked.validation)
    /\ context' = Take("context", context, parked.context)
    /\ aiResponse' = Take("aiResponse", aiResponse, parked.aiResponse)
    /\ agentMetadata' = Take("agentMetadata", agentMetadata, parked.agentMetadata)
    /\ processedResponse' = Take("processedResponse", processedResponse, parked.processedResponse)
    /\ result' = Take("result", result, parked.result)
    /\ error' = Take("error", error, parked.error)
    /\ iteration' = Take("iteration", iteration, parked.iteration)
    /\ currentMessages' = Take("currentMessages", currentMessages, parked.currentMessages)
    /\ toolsUsed' = Take("toolsUsed", toolsUsed, parked.toolsUsed)
    /\ functionCallsExecuted' = Take("functionCallsExecuted", functionCallsExecuted, parked.functionCallsExecuted)
    /\ inv' = Take("inv", inv, parked.inv)
    /\ aiCalls' = Take("aiCalls", aiCalls, parked.aiCalls)
    /\ UNCHANGED << detResponse, detResult, detAgain, san, req, sessions, rag >>

\* The running request may still call the model.
ConcCallsLeft == aiCalls < MaxConcCalls

ConcNext ==
    \/ ValidateInput
    \/ PrepareContext
    \/ CallAIAgentBegin
    \/ ConcCallsLeft /\ AgentToolPass
    \/ ConcCallsLeft /\ AgentFinalAnswer
    \/ ConcCallsLeft /\ AgentModelFails
    \/ ConcCallsLeft /\ AgentDetectorRaises
    \/ ConcCallsLeft /\ AgentFallbackAnswers
    \/ ConcCallsLeft /\ AgentFallbackFails
    \/ ProcessResponse
    \/ UpdateState
    \/ Wake
    \/ Switch

ConcSpec == ConcInit /\ [][ConcNext]_vars

----------------------------------------------------------------------------
(* queryByDocumentId (src/src/rag.js 561-647) with its default parameters. *)

\* The defaults of the parameters maxRetries and initialDelay (line 561).
maxRetries == 5

initialDelay == 2000

\* The function has not been called yet.
RagInit == Init /\ input = In(Message(TRUE, 1, "plain"), <<>>)

\* Lines 562-572: without a Vectorize binding the empty list is returned at
\* once, otherwise the for loop starts with attempt = 0.
QueryBegin ==
    /\ rag = Nil
    /\ \E vectorize \in BOOLEAN :
        rag' = [attempt |-> 0, tried |-> <<>>, waits |-> <<>>,
                pc |-> IF vectorize THEN "attempt" ELSE "returned",
                chunks |-> 0]
    /\ UNCHANGED << input, pc, currentStep, attempts, isComplete, delays, handlerCalls,
                    validation, context, aiResponse, agentMetadata, processedResponse,
                    result, error, iteration, currentMessages, toolsUsed,
                    functionCallsExecuted, inv, aiCalls, detResponse, detResult,
                    detAgain, san, req, parked, sessions >>

\* Lines 573-621: the attempt finds chunks of the document and returns them.
QueryAttemptFinds ==
    /\ rag # Nil /\ rag.pc = "attempt"
    /\ \E n \in 1..2 :
        rag' = [rag EXCEPT !.tried = Append(@, "found"), !.pc = "returned", !.chunks = n]
    /\ UNCHANGED << input, pc, currentStep, attempts, isComplete, delays, handlerCalls,
                    validation, context, aiResponse, agentMetadata, processedResponse,
                    result, error, iteration, currentMessages, toolsUsed,
                    functionCallsExecuted, inv, aiCalls, detResponse, detResult,
                    detAgain, san, req, parked, sessions >>

\* Lines 622-642: the attempt finds no chunk of the document ("empty") or
\* raises ("error": the embedding call, an invalid vector, the query). Unless
\* it was the last attempt the function waits initialDelay * 2^attempt; after
\* the last attempt the loop ends and the empty list is returned (646).
QueryAttemptMisses ==
    /\ rag # Nil /\ rag.pc = "attempt"
    /\ \E how \in {"empty", "error"} :
        IF rag.attempt < maxRetries - 1
        THEN rag' = [rag EXCEPT !.tried = Append(@, how),
                                !.waits = Append(@, initialDelay * (2 ^ rag.attempt)),
                                !.pc = "sleep"]
        ELSE rag' = [rag EXCEPT !.tried = Append(@, how),
                                !.attempt = @ + 1,
                                !.pc = "returned"]
    /\ UNCHANGED << input, pc, currentStep, attempts, isComplete, delays, handlerCalls,
                    validation, context, aiResponse, agentMetadata, processedResponse,
                    result, error, iteration, currentMessages, toolsUsed,
                    functionCallsExecuted, inv, aiCalls, detResponse, detResult,
                    detAgain, san, req, parked, sessions >>

\* The wait is over: attempt++ and the next pass of the for loop.
QueryWake ==
    /\ rag # Nil /\ rag.pc = "sleep"
    /\ rag' = [rag EXCEPT !.attempt = @ + 1, !.pc = "attempt"]
    /\ UNCHANGED << input, pc, currentStep, attempts, isComplete, delays, handlerCalls,
                    validation, context, aiResponse, agentMetadata, processedResponse,
                    result, error, iteration, currentMessages, toolsUsed,
                    functionCallsExecuted, inv, aiCalls, detResponse, detResult,
                    detAgain, san, req, parked, sessions >>

RagNext ==
    \/ QueryBegin
    \/ QueryAttemptFinds
    \/ QueryAttemptMisses
    \/ QueryWake

RagSpec == RagInit /\ [][RagNext]_vars

Detected == detResult # Nil

\* What each method of the cascade yields on its own for the response handed
\* to the detector.
ByMethod ==
    LET r == detResponse
        userKind == FirstUserKind(context.messages)
    IN { IF r.hasToolCalls THEN MapStructCalls(r.tool_calls) ELSE <<>>,
         MapStructCalls(r.function_call),
         Method3(r.text.json),
         Method4(r.text.marker),
         IF hasWeatherKeywords(userKind) THEN << ToolCall("get_weather", "full") >>
         ELSE IF context.requiresCurrentInfo \/ hasYearKeywords(userKind)
              THEN << ToolCall("search_web", "full") >> ELSE <<>>,
         Method6(r.text, 1) }

\* C4 (as claimed): the list the detector returns holds the calls of exactly
\* one detection method: it is empty or it is what one method yields alone.
C4_OneMethodOnly ==
    (Detected /\ ~detResult.raised) =>
        (detResult.calls = <<>> \/ detResult.calls \in ByMethod)

\* C5: when the raw response carries a non-empty structured tool_calls list and
\* the text also holds a bracket marker, the detector returns the structured
\* calls, one per entry and in their order, and nothing else (it raises only
\* when an entry's argument string is not JSON).
C5_StructuredWins ==
    (/\ Detected
     /\ detResponse.hasToolCalls /\ detResponse.tool_calls # <<>>
     /\ detResponse.text.marker # <<>>) =>
        IF detResult.raised
        THEN \E i \in 1..Len(detResponse.tool_calls) :
                 detResponse.tool_calls[i].form = "badstring"
        ELSE /\ Len(detResult.calls) = Len(detResponse.tool_calls)
             /\ \A i \in 1..Len(detResult.calls) :
                    detResult.calls[i].name = detResponse.tool_calls[i].name

C5_Witness ==
    /\ Detected /\ ~detResult.raised
    /\ detResponse.hasToolCalls /\ detResponse.tool_calls # <<>>
    /\ detResponse.text.marker # <<>> /\ IsRegistered(detResponse.text.marker[1].name)
    /\ Len(detResult.calls) = 2

\* C6 (as claimed): when the user message matches an auto-trigger, the
\* detector's result is exactly the one synthesized call, whatever the
\* response contains.
C6_AutoTriggerExclusive ==
    Detected =>
        LET kind == input.message.kind
        IN /\ hasWeatherKeywords(kind) =>
                (~detResult.raised /\ detResult.calls = << ToolCall("get_weather", "full") >>)
           /\ (~hasWeatherKeywords(kind) /\ (requiresCurrentInformation(kind) \/ hasYearKeywords(kind))) =>
                (~detResult.raised /\ detResult.calls = << ToolCall("search_web", "full") >>)

----------------------------------------------------------------------------
(* Claims about the pipeline and the agent loop (specification Spec) *)

Finished == pc \in {"done", "failed"}

AutoTriggered(kind) == requiresCurrentInformation(kind) \/ hasYearKeywords(kind)

C2_AtMostFivePasses == inv.passes <= maxIterations

\* C3 (as claimed): for a message that matches an auto-trigger, when every
\* model call returns plain text without structured call field or tool-call
\* syntax, the invocation ends Finalized and not MaxIterationsReached.
C3_AutoTriggerFinalizes ==
    (/\ validInput(input.message) /\ AutoTriggered(input.message.kind)
     /\ inv.calls >= 1 /\ inv.allPlain /\ inv.exit # "running") =>
        inv.exit = "finalized"

\* The messages a step appended to currentMessages.
Appended == SubSeq(currentMessages', Len(currentMessages) + 1, Len(currentMessages'))

\* A step in which detected calls were executed and one of them raised.
ThrowingPass ==
    /\ pc = "awaitingModel"
    /\ inv'.execs > inv.execs
    /\ \E i \in 1..Len(Appended[1].tool_calls) :
          executeFunction(Appended[1].tool_calls[i].name,
                          Appended[1].tool_calls[i].arguments) = {"throw"}

\* What C7 says of such a pass apart from the next model call: every detected
\* call is executed and has its tool message, in order, the message of a
\* call that raised carries success=false and confidence "low", the iteration
\* counter is incremented and the invocation does not raise.
ThrowHandled ==
    LET calls == Appended[1].tool_calls
    IN /\ Appended[1].role = "assistant"
       /\ Len(Appended) = Len(calls) + 2
       /\ inv'.execs = inv.execs + Len(calls)
       /\ \A i \in 1..Len(calls) :
             /\ Appended[i + 1].role = "tool"
             /\ Appended[i + 1].name = calls[i].name
             /\ executeFunction(calls[i].name, calls[i].arguments) = {"throw"} =>
                   /\ Appended[i + 1].fmt = "json"
                   /\ Appended[i + 1].result.success = "false"
                   /\ Appended[i + 1].result.confidence = "low"
       /\ iteration' = iteration + 1
       /\ inv'.exit # "raised"
       /\ pc' \notin {"sleep", "failed"}

\* C7 (as claimed): a raising tool executor never aborts the loop, and after
\* the pass the next model call is made.
C7_ThrowThenNextCall ==
    [][ThrowingPass => (ThrowHandled /\ pc' = "awaitingModel")]_vars

\* C7 (amended): a raising tool executor never aborts the loop; after the pass
\* the next model call is made unless the iteration counter has reached 5, in
\* which case the invocation returns the MaxIterationsReached answer.
C7_ThrowDoesNotAbort ==
    [][ThrowingPass =>
          /\ ThrowHandled
          /\ IF iteration' < maxIterations
             THEN pc' = "awaitingModel" /\ inv'.exit = "running"
             ELSE inv'.exit = "maxiter" /\ pc' = "handler"]_vars

C7_Witness ==
    /\ pc = "awaitingModel" /\ inv.toolThrew /\ iteration >= 1
    /\ \E i \in 1..(Len(currentMessages) - 1) :
          /\ currentMessages[i].role = "tool"
          /\ currentMessages[i].result.success = "false"
          /\ currentMessages[i + 1].role = "tool"
          /\ currentMessages[i + 1].result.success = "absent"

\* C8 (as claimed): when a tool executor threw and the loop reaches Finalized,
\* the answer begins with the uncertainty marker and the failed call is in
\* agentMetadata.functionCallsExecuted with result.success = false.
C8_FailureMarked ==
    (inv.toolThrew /\ inv.exit = "finalized") =>
        /\ aiResponse.content.marker
        /\ \E i \in 1..Len(agentMetadata.functionCallsExecuted) :
              agentMetadata.functionCallsExecuted[i].result.success = "false"

\* C9 (as claimed): when the fallback model call fails too, callAIAgent does
\* not raise but ends with a degraded answer that carries the error.
C9_FallbackFailureDegrades ==
    inv.fallbackFailed => (inv.exit # "raised" /\ aiResponse # Nil /\ aiResponse.error # "")

\* C10 (as claimed): a model call that fails with an authentication error ends
\* the invocation at once with the fixed remediation answer.
C10_AuthShortCircuits ==
    inv.authFailed => (inv.exit = "auth" /\ aiResponse = AuthAnswer)

----------------------------------------------------------------------------
(* Claims about the retry loop of execute (specification Spec) *)

\* The delays of a step with n attempts whose handler failed every time:
\* 2^k seconds before attempt k+1, none after the last.
Backoff(n) == [k \in 1..(n - 1) |-> (2 ^ k) * 1000]

\* C11: when a step with n attempts has failed for good, its handler was
\* invoked exactly n times, the delays slept were 2^k seconds before attempt
\* k+1 (2 s then 4 s for n = 3) with none after the last failure, and the
\* error execute raises names the step and the last error.
C11_RetryAccounting ==
    pc = "failed" =>
        LET n == steps[currentStep].retries
        IN /\ handlerCalls[currentStep] = n
           /\ attempts = n
           /\ delays = Backoff(n)
           /\ error # Nil
           /\ error.step = steps[currentStep].name
           /\ error.lastError \in {"invalid", "TypeError", "model", "fallback"}

C11_Witness ==
    /\ pc = "failed" /\ currentStep = 3
    /\ handlerCalls[3] = 3 /\ delays = << 2000, 4000 >>

\* C12 (as claimed): a validation failure is not retried: the handler of
\* validate_input is invoked once and no backoff delay is slept.
C12_ValidationNotRetried ==
    ~validInput(input.message) => (handlerCalls[1] <= 1 /\ delays = <<>>)

\* A step in which the handler of the current step failed on its last attempt.
Exhausts ==
    /\ attempts' = attempts + 1
    /\ attempts' >= steps[currentStep].retries

\* C13: when a step exhausts its attempts execute raises at once: the run is
\* then failed for good, isComplete is false, no result has been assembled or
\* is returned, and no handler of a later step has been or will be invoked.
C13_ExhaustionIsFatal ==
    /\ [][Exhausts => (pc' = "failed" /\ currentStep' = currentStep)]_vars
    /\ [][pc = "failed" => (pc' = "failed" /\ handlerCalls' = handlerCalls)]_vars
    /\ [](pc = "failed" =>
            /\ ~isComplete
            /\ result = Nil
            /\ error # Nil /\ error.step = steps[currentStep].name
            /\ \A j \in (currentStep + 1)..Len(steps) : handlerCalls[j] = 0)

C13_Witness ==
    /\ pc = "failed" /\ currentStep = 2
    /\ handlerCalls = << 1, 2, 0, 0, 0 >>

----------------------------------------------------------------------------
(* Claims about the sanitizer (specification SanSpec) *)

----------------------------------------------------------------------------
(* Claims about repeated detection (specification DetSpec) *)

----------------------------------------------------------------------------
(* Claims about the message sequence of the agent loop (specification Spec) *)

InLoop == pc \in {"awaitingModel", "awaitingFallback"}

\* A pass of the loop that detected calls (it ends with iteration++).
ToolPass == InLoop /\ iteration' = iteration + 1

\* A step in which env.AI.run is called; the sequence sent is currentMessages.
ModelCall == InLoop /\ inv'.calls = inv.calls + 1

\* The messages sent so far are still there, unchanged and in their order.
PrefixKept == SubSeq(currentMessages', 1, Len(currentMessages)) = currentMessages

\* C16 (as claimed): the sequence for the next model call is the one sent
\* before followed by exactly one assistant message (empty content, carrying
\* the detected calls) and one or more tool messages, and nothing else.
C16_AssistantAndToolsOnly ==
    [][ToolPass =>
          /\ PrefixKept
          /\ Len(Appended) >= 2
          /\ Appended[1].role = "assistant" /\ Appended[1].kind = "empty"
          /\ Appended[1].tool_calls # <<>>
          /\ \A i \in 2..Len(Appended) : Appended[i].role = "tool"]_vars

\* C16 (amended): within one invocation the sequence is only ever appended to:
\* a pass that detected calls appends one assistant message (empty content,
\* carrying the detected calls), one or more tool messages and one user-role
\* instruction; any other pass leaves the sequence as it is.
C16_AppendOnly ==
    [][InLoop =>
          IF iteration' = iteration + 1
          THEN /\ PrefixKept
               /\ Len(Appended) >= 3
               /\ Appended[1].role = "assistant" /\ Appended[1].kind = "empty"
               /\ Appended[1].tool_calls # <<>>
               /\ \A i \in 2..(Len(Appended) - 1) : Appended[i].role = "tool"
               /\ Appended[Len(Appended)] = InstructionMsg
          ELSE currentMessages' = currentMessages]_vars

C16_Witness ==
    /\ pc = "awaitingModel" /\ iteration = 2
    /\ Len(context.messages) = 4
    /\ SubSeq(currentMessages, 1, 4) = context.messages
    /\ Len(currentMessages) >= 10
    /\ currentMessages[5].role = "assistant" /\ currentMessages[5].tool_calls # <<>>

\* The tool messages of a pass answer the detected calls one by one, in order.
OneToolMsgPerCall ==
    LET calls == Appended[1].tool_calls
    IN /\ Len(Appended) = Len(calls) + 2
       /\ \A i \in 1..Len(calls) :
             /\ Appended[i + 1].role = "tool"
             /\ Appended[i + 1].name = calls[i].name

\* C17 (as claimed): a pass that detected calls appends one tool message per
\* call, in the order of detection, and in every model call after the first
\* of an invocation the last message sent is the instruction.
C17_InstructionLastAfterFirst ==
    /\ [][ToolPass => OneToolMsgPerCall]_vars
    /\ [][(ModelCall /\ inv.calls >= 1) =>
              currentMessages[Len(currentMessages)] = InstructionMsg]_vars

\* C17 (amended): a pass that detected calls appends one tool message per
\* call, in the order of detection (calls whose executor threw included), and
\* in every model call made after such a pass (iteration >= 1) the last
\* message sent is the instruction; the fallback call, made at iteration 0,
\* sends the sequence that ends with the user's message.
C17_InstructionLastAfterToolPass ==
    /\ [][ToolPass => OneToolMsgPerCall]_vars
    /\ [][ModelCall =>
              IF iteration >= 1
              THEN currentMessages[Len(currentMessages)] = InstructionMsg
              ELSE currentMessages = context.messages]_vars

C17_Witness ==
    /\ pc = "awaitingModel" /\ iteration >= 1 /\ inv.toolThrew /\ inv.calls >= 3
    /\ currentMessages[Len(currentMessages)] = InstructionMsg
    /\ currentMessages[Len(currentMessages) - 1].role = "tool"
    /\ currentMessages[Len(currentMessages) - 1].name = "get_current_time"
    /\ currentMessages[Len(currentMessages) - 2].name = "get_weather"
    /\ currentMessages[Len(currentMessages) - 2].result.success = "false"

----------------------------------------------------------------------------
(* Claims about the iteration cap (specification Spec) *)

\* C18: the fifth pass that detects calls ends the loop: callAIAgent makes no
\* further model call and returns normally (execute goes on to
\* process_response) with the fixed answer whose error is "Max agent
\* iterations reached" and which carries the tools used so far, as does the
\* metadata; that answer is produced only when the iteration counter is 5.
C18_CapEndsLoop ==
    /\ [][(ToolPass /\ iteration' = maxIterations) =>
              /\ inv'.exit = "maxiter"
              /\ pc' = "handler" /\ currentStep' = currentStep + 1
              /\ aiResponse'.error = "Max agent iterations reached"
              /\ aiResponse'.content = Content("maxiter", FALSE, FALSE)
              /\ aiResponse'.toolsUsed = toolsUsed'
              /\ aiResponse'.functionCallsExecuted = functionCallsExecuted'
              /\ agentMetadata'.toolsUsed = toolsUsed'
              /\ agentMetadata'.iterations = maxIterations]_vars
    /\ [][iteration = maxIterations =>
              (inv'.calls = inv.calls /\ inv'.execs = inv.execs /\ pc' # "failed")]_vars
    /\ []((inv.exit = "maxiter" /\ ~inv.authFailed) => inv.calls = maxIterations)
    /\ []((aiResponse # Nil /\ aiResponse.error = "Max agent iterations reached") =>
            (iteration = maxIterations /\ inv.exit = "maxiter"))

C18_Witness ==
    /\ pc = "done" /\ inv.exit = "maxiter" /\ inv.calls = maxIterations
    /\ aiResponse.error = "Max agent iterations reached"
    /\ Len(aiResponse.toolsUsed) >= maxIterations
    /\ result.agent.toolsUsed = aiResponse.toolsUsed

\* C19: when the 45 s deadline expires before the pipeline returns, the
\* request is answered with the fixed timeout error, nothing of the run is
\* returned or posted to the session store, and from the expiry on the
\* pipeline run invokes no step handler, makes no model call, executes no
\* tool and starts no backoff sleep.
C19_DeadlineAbandonsRun ==
    /\ [](req.timedOut => req.response = TimeoutResponse /\ req.sessionWrites = <<>>)
    /\ [][req.timedOut => UNCHANGED << handlerCalls, aiCalls, inv, delays >>]_vars

\* What holds of a request that runs alone, in terms of its own input and of
\* what its own collaborators did: the context is the one prepared from its
\* input, the message sequence is that context followed by the tool turns of
\* its own passes, toolsUsed names its own executed calls, the step counters
\* count its own handler invocations and the result is built from its own
\* input and answer.
SoloConsistent(s) ==
    /\ s.context = Nil \/ s.context = prepareContext(s.input)
    /\ s.pc \in {"awaitingModel", "awaitingFallback"} =>
         /\ Len(s.currentMessages)
              = Len(s.context.messages) + s.inv.execs + 2 * s.iteration
         /\ SubSeq(s.currentMessages, 1, Len(s.context.messages)) = s.context.messages
    /\ s.toolsUsed = Names(s.functionCallsExecuted)
    /\ Len(s.toolsUsed) <= s.inv.execs
    /\ \A j \in 1..Len(steps) :
         /\ j > s.currentStep => s.handlerCalls[j] = 0
         /\ j < s.currentStep => s.handlerCalls[j] >= 1
    /\ s.handlerCalls[s.currentStep]
         = IF s.pc \in {"awaitingModel", "awaitingFallback", "done"}
           THEN s.attempts + 1 ELSE s.attempts
    /\ s.result # Nil =>
         /\ s.result.conversationHistory
              = updatedHistory(s.input, s.processedResponse, s.agentMetadata)
         /\ s.result.response = s.aiResponse.content
         /\ s.result.agent.toolsUsed = s.agentMetadata.toolsUsed
         /\ s.result.conversationLength = Len(s.input.conversationHistory) + 1

\* C20: of two requests interleaved at their suspension points each has its
\* own execution context. The variables of the suspended request change in
\* no step but the change-over, in which the request that resumes finds
\* every one of its variables as it left it, and the result, message
\* sequence, toolsUsed and step counters of either request are those of a
\* run alone with the same collaborator responses.
C20_RequestsIndependent ==
    /\ [](SoloConsistent(Running) /\ SoloConsistent(parked))
    /\ [][parked' # parked => (parked' = Running /\ Running' = parked)]_vars

\* Both requests are in their agent loop, suspended in a model call, one
\* with tools executed and messages appended, the other with none.
C20_Witness ==
    /\ pc = "awaitingModel" /\ parked.pc = "awaitingModel"
    /\ toolsUsed = <<>> /\ parked.toolsUsed # <<>>
    /\ Len(parked.currentMessages) > Len(parked.context.messages)
    /\ input # parked.input

C22_StoreHoldsHistory ==
    (req.response # Nil /\ req.response.status = 200 /\ req.sessionWrites # <<>>) =>
        /\ "default" \in DOMAIN sessions
        /\ sessions["default"] = result.conversationHistory

\* The assistant messages with detected calls that the invocation appended:
\* one for every response that yielded calls.
ToolTurns ==
    { i \in (Len(context.messages) + 1)..Len(currentMessages) :
        currentMessages[i].role = "assistant" /\ currentMessages[i].tool_calls # <<>> }

\* The calls detected in the first response of the invocation.
FirstDetectedCalls == currentMessages[Len(context.messages) + 1].tool_calls

\* The invocation of callAIAgent that has returned got a response with
\* exactly one detected call, to a registered tool, and after it a response
\* without detected call, which became the answer.
OneToolThenAnswer ==
    /\ agentMetadata # Nil
    /\ inv.exit = "finalized"
    /\ Cardinality(ToolTurns) = 1
    /\ Len(FirstDetectedCalls) = 1
    /\ IsRegistered(FirstDetectedCalls[1].name)

Unsuccessful == SelectSeq(rag.tried, LAMBDA t : t # "found")

\* C24 (as claimed): queryByDocumentId makes at most 5 attempts, waits 2 s,
\* 4 s, 8 s, 16 s and 32 s after the successive unsuccessful attempts,
\* returns as soon as an attempt finds chunks and returns the empty list
\* once the attempts are exhausted.
C24_FiveWaits ==
    (rag # Nil /\ rag.pc = "returned") =>
        /\ Len(rag.tried) <= maxRetries
        /\ rag.waits = [i \in 1..Len(Unsuccessful) |-> (2 ^ i) * 1000]
        /\ rag.chunks > 0 <=>
              (rag.tried # <<>> /\ rag.tried[Len(rag.tried)] = "found")
        /\ \A i \in 1..(Len(rag.tried) - 1) : rag.tried[i] # "found"

\* A step in which env.AI.run(primaryModel) fails with an error that is no
\* authentication error, in a pass after the first tool pass.
LateModelFailure ==
    /\ AgentModelFails
    /\ iteration >= 1
    /\ inv'.nonAuthCalls = inv.nonAuthCalls + 1

\* C25: a model-call failure that is no authentication error, at iteration
\* >= 1, makes callAIAgent raise without a call of the fallback model (which
\* is only ever called at iteration 0); execute counts it as one failed
\* attempt of call_ai_agent, and the next invocation of the handler starts
\* again with iteration 0, the prepared messages and no tools.
C25_LateFailureRaises ==
    /\ [][LateModelFailure =>
            /\ inv'.exit = "raised"
            /\ inv'.calls = inv.calls + 1
            /\ attempts' = attempts + 1
            /\ currentStep' = currentStep
            /\ pc' = IF attempts + 1 < steps[currentStep].retries THEN "sleep" ELSE "failed"
            /\ aiResponse' = aiResponse /\ agentMetadata' = agentMetadata]_vars
    /\ [](pc = "awaitingFallback" => iteration = 0)
    /\ [][(pc = "handler" /\ currentStep = 3 /\ pc' # "handler") =>
            /\ pc' = "awaitingModel"
            /\ iteration' = 0
            /\ currentMessages' = context.messages
            /\ toolsUsed' = <<>> /\ functionCallsExecuted' = <<>>
            /\ inv' = NewInvocation]_vars

\* The second attempt of call_ai_agent is about to start after the first was
\* ended by a failure of the model call at iteration 2.
C25_Witness ==
    /\ pc = "sleep" /\ currentStep = 3 /\ attempts = 1
    /\ inv.exit = "raised" /\ ~inv.fallbackFailed
    /\ iteration = 2
    /\ inv.calls = 3 /\ inv.nonAuthCalls = 3
    /\ toolsUsed # <<>>

\* What each method of the cascade yields on its own for the response handed
\* to the detector, in the order of their priority.
InPriorityOrder ==
    LET r == detResponse
        userKind == FirstUserKind(context.messages)
    IN << IF r.hasToolCalls THEN MapStructCalls(r.tool_calls) ELSE <<>>,
          MapStructCalls(r.function_call),
          Method3(r.text.json),
          Method4(r.text.marker),
          IF hasWeatherKeywords(userKind) THEN << ToolCall("get_weather", "full") >>
          ELSE IF context.requiresCurrentInfo \/ hasYearKeywords(userKind)
               THEN << ToolCall("search_web", "full") >> ELSE <<>>,
          Method6(r.text, 1) >>

\* The calls of the first method that yields any.
FirstYield ==
    LET yielding == { i \in 1..Len(InPriorityOrder) : InPriorityOrder[i] # <<>> }
    IN IF yielding = {} THEN <<>>
       ELSE InPriorityOrder[CHOOSE i \in yielding : \A j \in yielding : i <= j]

\* C26 (as claimed): a method ends the cascade only when it yields a call;
\* when the method for the structured tool_calls field yields none, the lower
\* methods are consulted and the first of them that yields a call determines
\* the result.
C26_EmptyResultFallsThrough ==
    (Detected /\ ~detResult.raised /\ InPriorityOrder[1] = <<>>) =>
        detResult.calls = FirstYield

\* The call the auto-trigger would synthesize if it looked at a message of
\* the given keyword class alone.
TriggeredBy(kind) ==
    IF hasWeatherKeywords(kind) THEN << ToolCall("get_weather", "full") >>
    ELSE IF requiresCurrentInformation(kind) \/ hasYearKeywords(kind)
         THEN << ToolCall("search_web", "full") >>
         ELSE <<>>

\* C27 (as claimed): the auto-trigger decision depends on the current user
\* message only. For a response without any tool-call syntax the detector
\* returns the call that the current message triggers, whatever the prior
\* history holds, and returns nothing when the current message has no
\* weather or current-information keyword.
C27_CurrentMessageDecides ==
    (Detected /\ IsPlainResponse(detResponse)) =>
        /\ ~detResult.raised
        /\ detResult.calls = TriggeredBy(input.message.kind)

\* C28 (as claimed): every tool result appended to the conversation carries
\* a confidence tag, "low" exactly when the execution raised (the result is
\* the object of the catch block, with success false) and "high" in every
\* other case, also for a result that is an error payload.
C28_EveryResultTagged ==
    \A i \in 1..Len(currentMessages) :
        currentMessages[i].role = "tool" =>
            currentMessages[i].result.confidence
              = IF currentMessages[i].result.success = "false" THEN "low" ELSE "high"

\* What the handler of step i leaves in this.state when it returns.
StepOutput(i) ==
    CASE i = 1 -> validation
      [] i = 2 -> context
      [] i = 3 -> aiResponse
      [] i = 4 -> processedResponse
      [] OTHER -> result

\* Step i has succeeded: execute has gone on to a later step or has ended.
Succeeded(i) == currentStep > i \/ (i = Len(steps) /\ pc = "done")

\* C29: the handlers are invoked in the order of the steps. A handler is
\* invoked only for the current step, the current step only moves on by one
\* and only when its handler has returned, so the steps before the current
\* one have succeeded (they were invoked and their output is in the state),
\* no later step has been invoked and no step that succeeded is invoked
\* again; isComplete is true only when all five steps have succeeded.
C29_FixedOrder ==
    /\ [](\A i \in 1..Len(steps) :
            /\ i > currentStep => handlerCalls[i] = 0
            /\ Succeeded(i) => (handlerCalls[i] >= 1 /\ StepOutput(i) # Nil)
            /\ (handlerCalls[i] >= 1 /\ i > 1) => Succeeded(i - 1))
    /\ [][\A i \in 1..Len(steps) :
            handlerCalls'[i] # handlerCalls[i] =>
                /\ i = currentStep /\ ~Succeeded(i)
                /\ handlerCalls'[i] = handlerCalls[i] + 1]_vars
    /\ [][currentStep' = currentStep \/ currentStep' = currentStep + 1]_vars
    /\ [](isComplete <=> pc = "done")
    /\ [](isComplete => \A i \in 1..Len(steps) : Succeeded(i))

\* A run that ended with all five steps done, the third after a retry.
C29_Witness ==
    /\ isComplete /\ pc = "done"
    /\ handlerCalls[1] = 1 /\ handlerCalls[2] = 1
    /\ handlerCalls[3] = 2
    /\ handlerCalls[4] = 1 /\ handlerCalls[5] = 1

\* The messages named by the claim: empty, not a string, or over 2000
\* characters.
Rejectable(msg) == ~msg.isString \/ msg.len = 0 \/ msg.len > 2000

\* C30: a run whose message is empty, not a string or longer than 2000
\* characters never gets past validate_input: no step after it is invoked,
\* no model call is made and no tool is executed. A string of 1 to 2000
\* characters passes validate_input at its first invocation: the step never
\* fails or waits for a retry, and once the handler has been invoked the
\* validation record is in the state.
C30_InvalidMessageStopsRun ==
    /\ Rejectable(input.message) =>
           /\ aiCalls = 0
           /\ inv = NewInvocation
           /\ toolsUsed = <<>>
           /\ validation = Nil
           /\ currentStep = 1 /\ ~isComplete
           /\ \A i \in 2..Len(steps) : handlerCalls[i] = 0
    /\ ~Rejectable(input.message) =>
           /\ handlerCalls[1] <= 1
           /\ ~(currentStep = 1 /\ pc \in {"sleep", "failed"})
           /\ handlerCalls[1] = 1 =>
                  /\ validation # Nil
                  /\ validation.isValid
                  /\ validation.messageLength = input.message.len
                  /\ currentStep >= 2

\* A message of 2001 characters was rejected at every attempt of
\* validate_input and execute has thrown.
C30_Witness ==
    /\ input.message.isString /\ input.message.len = 2001
    /\ pc = "failed" /\ currentStep = 1
    /\ handlerCalls[1] = steps[1].retries
    /\ error.step = "validate_input"
    /\ aiCalls = 0

\* An answer whose text a model produced: the primary model in the
\* final-answer branch, or the fallback model.
FromModel(content) == content.src \in {"model", "fallbackModel"}

\* C31: the answer text of every result that comes from a model response,
\* primary or fallback, went through the pattern removals of the sanitizer
\* before process_response and update_state put it into the result.
C31_ModelAnswersSanitized ==
    /\ (processedResponse # Nil /\ FromModel(processedResponse.content))
           => processedResponse.content.sanitized
    /\ (result # Nil /\ FromModel(result.response)) => result.response.sanitized

\* The number of required parameters of a registered tool's schema.
RequiredParams(funcName) ==
    LET i == CHOOSE k \in 1..Len(AVAILABLE_FUNCTIONS) : AVAILABLE_FUNCTIONS[k].name = funcName
    IN AVAILABLE_FUNCTIONS[i].required

\* The cascade got as far as the phrase patterns: no structured field ended it
\* and the auto-trigger did not fire.
PatternMethodRan ==
    /\ Detected /\ ~detResult.raised
    /\ ~detResponse.hasToolCalls /\ detResponse.function_call = <<>>
    /\ InPriorityOrder[5] = <<>>

\* The calls the phrase patterns added: what follows the calls of the
\* embedded-JSON and marker methods in the returned list.
PatternCalls ==
    LET before == Len(Method3(detResponse.text.json)) + Len(Method4(detResponse.text.marker))
    IN SubSeq(detResult.calls, before + 1, Len(detResult.calls))

\* C34: every call the natural-language pattern method returns names a
\* registered tool and either carries an extracted argument or names a tool
\* without required parameters; a tool with required parameters for which
\* nothing was extracted from the text is not among them.
C34_PatternCallsHaveArguments ==
    PatternMethodRan =>
        /\ \A i \in 1..Len(PatternCalls) :
              /\ IsRegistered(PatternCalls[i].name)
              /\ \/ PatternCalls[i].arguments = "full"
                 \/ RequiredParams(PatternCalls[i].name) = 0
        /\ \A k \in 1..Len(AVAILABLE_FUNCTIONS) :
              LET f == AVAILABLE_FUNCTIONS[k]
              IN (f.required > 0 /\ f.name \notin detResponse.text.extract) =>
                     \A i \in 1..Len(PatternCalls) : PatternCalls[i].name # f.name

\* The text matches the phrase patterns of two tools with a required
\* parameter and an argument can be extracted for one of them only: that one
\* is returned, the other is not.
C34_Witness ==
    /\ PatternMethodRan
    /\ detResponse.text.nl = {"calculate", "get_weather"}
    /\ detResponse.text.extract = {"calculate"}
    /\ detResponse.text.json = <<>> /\ detResponse.text.marker = <<>>
    /\ detResult.calls = << ToolCall("calculate", "full") >>

\* C32 (as claimed): process_response bounds the length of the answer: the
\* content it stores, which update_state copies into result.response, is at
\* most 2000 characters long.
C32_ResponseAtMost2000 ==
    (san # Nil /\ san.processed # Nil) =>
        /\ san.processed.processedLength <= 2000
        /\ TextLen(san.processed.content) <= 2000

\* C33: the conversation history of the result is the input history as it
\* was given, then one user entry with the message as the user wrote it (not
\* the text prepareContext built around the retrieved context), then one
\* assistant entry with the returned answer. None of the tool messages and
\* none of the instructions the agent loop added to its message sequence is
\* in it.
C33_HistoryGrowsByOneTurn ==
    result # Nil =>
        LET h == result.conversationHistory
            n == Len(input.conversationHistory)
        IN /\ Len(h) = n + 2
           /\ SubSeq(h, 1, n) = input.conversationHistory
           /\ h[n + 1] = UserMsg(input.message.kind)
           /\ h[n + 1] # context.messages[Len(context.messages)] <=> input.ragContext
           /\ h[n + 2].role = "assistant"
           /\ h[n + 2].content = result.response
           /\ \A i \in 1..Len(h) : h[i].role # "tool" /\ h[i].kind # "instruction"

\* A run with a prior history and a retrieved context in which a tool was
\* executed, so that the message sequence of the loop held an augmented user
\* turn, tool messages and an instruction.
C33_Witness ==
    /\ result # Nil /\ pc = "done"
    /\ input.ragContext /\ input.conversationHistory # <<>>
    /\ agentMetadata.toolsUsed # <<>>
    /\ \E i \in 1..Len(currentMessages) : currentMessages[i].role = "tool"
    /\ \E i \in 1..Len(currentMessages) : currentMessages[i] = InstructionMsg

\* The tool messages in a message sequence.
IsToolMsg(m) == m.role = "tool"

ToolMessages(messages) == SelectSeq(messages, IsToolMsg)

\* C35: callAIAgent leaves state.context as prepareContext built it. Every
\* invocation of the step's handler, the first one and each retry, starts from
\* the prepared message sequence with empty toolsUsed and
\* functionCallsExecuted, so the message sequence and the tool records hold
\* the tool results of the current attempt only, and the agent metadata of
\* the final result those of the attempt that returned.
C35_RetryStartsFromPreparedContext ==
    /\ [][context # Nil => context' = context]_vars
    /\ [](context # Nil => context = prepareContext(input))
    /\ [][handlerCalls'[3] # handlerCalls[3] =>
            /\ currentMessages' = context.messages
            /\ toolsUsed' = <<>>
            /\ functionCallsExecuted' = <<>>
            /\ iteration' = 0]_vars
    /\ [](handlerCalls[3] >= 1 =>
            /\ SubSeq(currentMessages, 1, Len(context.messages)) = context.messages
            /\ Len(ToolMessages(currentMessages)) = inv.execs
            /\ Len(functionCallsExecuted) <= inv.execs
            /\ Len(toolsUsed) <= inv.execs)
    /\ [](result # Nil =>
            /\ result.agent.functionCallsExecuted = agentMetadata.functionCallsExecuted
            /\ Len(result.agent.functionCallsExecuted) <= inv.execs
            /\ Len(result.agent.toolsUsed) <= inv.execs)

\* The first attempt of call_ai_agent executed a tool and then failed (only
\* an attempt that began with a tool pass makes three model calls and
\* raises); the second attempt answered with its first model call, and the
\* result names no tool.
C35_Witness ==
    /\ pc = "done" /\ result # Nil
    /\ handlerCalls[3] = 2
    /\ inv.calls = 1 /\ aiCalls = 4
    /\ inv.execs = 0
    /\ result.agent.toolsUsed = <<>> /\ result.agent.functionCallsExecuted = <<>>
    /\ ToolMessages(currentMessages) = <<>>

\* A tool message for a call whose executor returned (the catch block of the
\* execution loop sets success to false in the result it builds).
ExecutorReturned(m) == m.role = "tool" /\ m.result.success # "false"

C37_OnlyRegisteredTools ==
    (Detected /\ ~detResult.raised) =>
        \A i \in 1..Len(detResult.calls) : IsRegistered(detResult.calls[i].name)

\* C39 (as claimed): the detector returns for every model response; a
\* structured call whose argument string is not JSON is skipped like the
\* malformed JSON of the text methods, and no error leaves the detector.
C39_DetectorNeverRaises ==
    Detected => ~detResult.raised

\* Where a non-empty answer text can come from: a model's text, or one of the
\* fixed texts of the workflow.
AnswerSources == {"model", "fallbackModel", "apology", "auth", "maxiter"}

\* C38 (as claimed): when execute has returned, result.response is a
\* non-empty answer: the text of a model, or, when the model's answer was
\* empty or missing, a fixed text of the workflow.
C38_EmptyAnswerReplaced ==
    (pc = "done" /\ result # Nil) => result.response.src \in AnswerSources

====
